---- MODULE Spec2Model ----
(***************************************************************************)
(* Model of the ensemble orchestration and incremental-learning engine:    *)
(*   - training/core/brain_hub.py   (BrainHub: collect, calibrate,         *)
(*                                   diversify, learn)                     *)
(*   - training/trainer_v2.py       (treinar_pendencias / run: the replay  *)
(*                                   loop and its checkpoint)              *)
(*   - training/brains/...          (generate of the two brains whose      *)
(*                                   size handling the hub passes through) *)
(*                                                                         *)
(* Numbers with a fractional part are kept as scaled integers:             *)
(*   similarity thresholds and relevance in hundredths (0.88 -> 88),       *)
(*   meta weights in 1e-4, scores in 1e-6.  A Jaccard comparison           *)
(*   inter/uni >= t is evaluated exactly as inter*100 >= t*uni.            *)
(***************************************************************************)
EXTENDS Integers, Sequences, FiniteSets, TLC

(***************************************************************************)
(* Program constants                                                       *)
(***************************************************************************)
UniversoMax == 31
JogoMinDezenas == 7
JogoMaxDezenas == 15
SalvarMemoriaMin == 5
StepWrapMax == 25
DeltaMax == 3
TamanhoPadrao == 15
ExplorationPct == 8
MaxBrainSharePct == 40
RelaxStepPct == 3
RelaxCeilPct == 98
JanelaMinima == 10
\* PERSISTIR_A_CADA
PersistirACada == 5

(***************************************************************************)
(* Bounds of the model                                                     *)
(***************************************************************************)
MaxPerBrain == 2
MaxTopN == 4
\* the replay loop: stored positions are 1..MaxConcurso, a run asks the hub
\* for TreinoPorCerebro games per brain, keeps TreinoTopN and evaluates
\* the first TreinoTopK of them; at most MaxInterrupcoes kills and failed
\* writes in a behaviour
MaxConcurso == 4
TreinoPorCerebro == 1
TreinoTopN == 1
TreinoTopK == 1
MaxInterrupcoes == 1

\* the backtest: steps of one run, block size, runs of main
MaxPassos == 3

MaxBloco == 2

MaxExecucoes == 2
\* positions a backtest run with no step budget is followed for
MaxRodadas == 4

\* compaction: numbers 1..MaxDezenaCg, games of up to MaxJogoCg entries,
\* targets up to MaxTargetCg
MaxDezenaCg == 4

MaxJogoCg == 4

MaxTargetCg == 2

\* loop mode: stored positions within 1..MaxPosLoop, --limite up to MaxLimite
MaxPosLoop == 6

MaxLimite == 3

\* dashboard: request handlers in flight and worker threads alive at once
MaxPedidos == 2

MaxThreads == 2

\* the brains: hub.learn calls with new arguments, calls that repeat the
\* arguments of the call before, positions they span, candidates built
MaxLearn == 2

MaxRepeticoes == 10

MaxLearnPos == 2

MaxGerados == 1

MaxSalvamentos == 1
\* window sizes a context is asked with
MaxJanela == 3
\* positions of the table a snapshot run goes through
MaxPosPersist == 8

(***************************************************************************)
(* Generic helpers                                                         *)
(***************************************************************************)
Range(s) == {s[i] : i \in DOMAIN s}

Min2(a, b) == IF a <= b THEN a ELSE b

Max2(a, b) == IF a >= b THEN a ELSE b

UNIVERSO == 1..UniversoMax

(***************************************************************************)
(* brain_hub.jaccard                                                       *)
(***************************************************************************)
JaccardInter(a, b) == Cardinality(a \cap b)

JaccardUni(a, b) == Cardinality(a \cup b)

\* jaccard(a, b) >= t/100 ; an empty union gives 0.0
JaccardGE(a, b, t) ==
    IF JaccardUni(a, b) = 0 THEN 0 >= t
    ELSE JaccardInter(a, b) * 100 >= t * JaccardUni(a, b)

(***************************************************************************)
(* Brains.  Two registered brains, in the trainer's registration order.    *)
(***************************************************************************)
FREQ == "stat_freq_recente_120"

STEPS == "heur_step_sequences"

BrainOrder == <<FREQ, STEPS>>

BrainIds == Range(BrainOrder)

\* A run of `size` consecutive numbers of 1..maxv starting at `start`
\* (wrapping): the representative subsets the random draws range over.
Janela(start, size, maxv) == {((start - 1 + j) % maxv) + 1 : j \in 0..(size - 1)}

\* StatFreqRecenteBrain.generate: the requested size is replaced by 15
\* unless it is 15 or 18; every game is a set filled up to that size.
FreqSize(size) == IF size \in {15, 18} THEN size ELSE TamanhoPadrao

\* brain_step_sequences
WrapNumber(value, maxv) == ((value - 1) % maxv) + 1

PatternP1 == <<2, 2, 1, 2, 1, 1, 2, 2, 1, 2, 1, 1, 2, 2>>

ExpandPattern(base, steps) ==
    IF steps <= 0 THEN <<>>
    ELSE [i \in 1..steps |->
            Max2(1, Min2(DeltaMax, base[((i - 1) % Len(base)) + 1]))]

\* the first number after nxt (wrapping, at most 25 tries) not yet in nums;
\* 0 when there is none
RECURSIVE NextFree(_, _, _)
NextFree(nums, candidate, tries) ==
    IF tries = 0 THEN 0
    ELSE LET c == WrapNumber(candidate + 1, StepWrapMax)
         IN  IF c \notin Range(nums) THEN c ELSE NextFree(nums, c, tries - 1)

RECURSIVE SeqFromDeltas(_, _, _, _)
SeqFromDeltas(nums, deltas, i, size) ==
    IF i > Len(deltas) THEN nums
    ELSE LET nxt0 == WrapNumber(nums[Len(nums)] + deltas[i], StepWrapMax)
             nxt  == IF nxt0 \in Range(nums)
                     THEN NextFree(nums, nxt0, StepWrapMax)
                     ELSE nxt0
         IN  IF nxt = 0 THEN <<>>
             ELSE IF Len(nums) + 1 >= size THEN Append(nums, nxt)
             ELSE SeqFromDeltas(Append(nums, nxt), deltas, i + 1, size)

\* _sequence_from_deltas: <<>> stands for None
SequenceFromDeltas(start, deltas, size) ==
    LET nums == SeqFromDeltas(<<start>>, deltas, 1, size)
    IN  IF nums = <<>> \/ Cardinality(Range(nums)) # size THEN <<>>
        ELSE SubSeq(nums, 1, size)

\* HeuristicStepSequencesBrain.generate: the requested size is replaced by
\* 15 unless it is 15, 18 or 19.
StepsSize(size) == IF size \in {15, 18, 19} THEN size ELSE TamanhoPadrao

BuildCandidate(start, size) ==
    Range(SequenceFromDeltas(start, ExpandPattern(PatternP1, size - 1), size))

GenerateStepSequences(size, n, draws) ==
    [k \in 1..n |-> BuildCandidate(draws[k], StepsSize(size))]

\* b.generate(context, size, n) for a registered brain
\* the games StatFreqRecenteBrain.generate fills at random: a run of numbers
\* from the drawn start, or, for the draw 0, the very set the step brain
\* builds from start 1
GenerateFreqRecente(size, n, draws) ==
    [k \in 1..n |-> IF draws[k] = 0
                    THEN BuildCandidate(1, FreqSize(size))
                    ELSE Janela(draws[k], FreqSize(size), UniversoMax)]

Generate(b, size, n, draws) ==
    IF b = FREQ THEN GenerateFreqRecente(size, n, draws)
    ELSE GenerateStepSequences(size, n, draws)

(***************************************************************************)
(* BrainHub                                                                *)
(***************************************************************************)
\* self.meta: a brain without an entry has usos = 0
MetaVazia == [b \in BrainIds |-> [usos |-> 0, pontos |-> 0, q14 |-> 0, q15 |-> 0]]

\* the weight without its clamp
MetaWeightSemLimite(meta, b) ==
    IF meta[b].usos = 0 THEN 10000
    ELSE LET usos == Max2(1, meta[b].usos)
         IN  10000 + (meta[b].pontos * 100) \div usos
                   + ((meta[b].q14 * 6 + meta[b].q15 * 12) * 250) \div usos

\* BrainHub._meta_weight, in 1e-4:
\*   1.0 + (media/15)*0.15 + bonus*0.25 clamped to [0.85, 1.25]
MetaWeight(meta, b) ==
    IF meta[b].usos = 0 THEN 10000
    ELSE LET usos == Max2(1, meta[b].usos)
             peso == 10000 + (meta[b].pontos * 100) \div usos
                           + ((meta[b].q14 * 6 + meta[b].q15 * 12) * 250) \div usos
         IN  Max2(8500, Min2(12500, peso))

\* What one brain does during one generate_candidates call:
\*   modo   "ok" | "disabled" (enabled is False) | "raises" (generate or
\*          score_game raises)
\*   rel    evaluate_context, in hundredths
\*   draws  the random draws of generate, raws the values of score_game,
\*   noise  random.uniform(0, exploration_rate) in 1e-6, per candidate
\* The loop over self.brains: <<raised, cand>>
RECURSIVE Collect(_, _, _, _, _)
Collect(i, sorteio, size, n, acc) ==
    IF i > Len(BrainOrder) THEN [raised |-> FALSE, cand |-> acc]
    ELSE LET b == BrainOrder[i]
             s == sorteio[b]
         IN  IF s.modo = "disabled" THEN Collect(i + 1, sorteio, size, n, acc)
             ELSE IF s.rel <= 0 THEN Collect(i + 1, sorteio, size, n, acc)
             ELSE IF s.modo = "raises" THEN [raised |-> TRUE, cand |-> <<>>]
             ELSE LET jogos == Generate(b, size, n, s.draws)
                  IN  Collect(i + 1, sorteio, size, n,
                              acc \o [k \in 1..n |->
                                        [jogo |-> jogos[k],
                                         score_raw |-> s.raws[k],
                                         brain_id |-> b,
                                         rel |-> s.rel,
                                         noise |-> s.noise[k]]])

RawsOf(cand, b) == {cand[i].score_raw : i \in {j \in DOMAIN cand : cand[j].brain_id = b}}

MinOf(S) == CHOOSE x \in S : \A y \in S : x <= y

MaxOf(S) == CHOOSE x \in S : \A y \in S : x >= y

\* a min-max normalisation over the raw scores of the whole batch
NormDoLote(c, cand) ==
    LET todos == {cand[i].score_raw : i \in DOMAIN cand}
    IN  IF MaxOf(todos) > MinOf(todos)
        THEN ((c.score_raw - MinOf(todos)) * 100) \div (MaxOf(todos) - MinOf(todos))
        ELSE 50

\* per-brain min-max normalisation, in hundredths
Norm(c, cand) ==
    LET min_s == MinOf(RawsOf(cand, c.brain_id))
        max_s == MaxOf(RawsOf(cand, c.brain_id))
    IN  IF max_s > min_s
        THEN ((c.score_raw - min_s) * 100) \div (max_s - min_s)
        ELSE 50

\* BrainHub.__init__: the configuration as the constructor keeps it, the
\* bonus in 1e-6
NovoHub(quota_enabled, quota_max_per_brain, consensus_enabled, consensus_bonus, consensus_min_votes) ==
    [quota_enabled |-> quota_enabled,
     quota_max_per_brain |-> Max2(0, quota_max_per_brain),
     consensus_enabled |-> consensus_enabled,
     consensus_bonus |-> Max2(0, consensus_bonus),
     consensus_min_votes |-> Max2(2, consensus_min_votes)]

\* the proposals of exactly this number set, counted one by one
VotesPorProposta(cand, jogo) ==
    Cardinality({i \in DOMAIN cand : cand[i].jogo = jogo})

\* len(votes_map[jogo]): the brains that proposed exactly this number set
VotesDe(cand, jogo) ==
    Cardinality({cand[i].brain_id : i \in {k \in DOMAIN cand : cand[k].jogo = jogo}})

\* the key consensus_votes of a candidate; -1 stands for no such key
ConsensusVotes(cfg, cand, jogo) ==
    IF cfg.consensus_enabled THEN VotesDe(cand, jogo) ELSE -1

\* what the consensus block adds to the score, in 1e-6
ConsensusBonus(cfg, cand, jogo) ==
    IF cfg.consensus_enabled /\ VotesDe(cand, jogo) >= cfg.consensus_min_votes
    THEN cfg.consensus_bonus
    ELSE 0

\* calibrated*(1 - exploration_rate) + noise, in 1e-6
Calibrated(c, cand, meta) ==
    LET calibrated == ((Norm(c, cand) * 65 + c.rel * 35) * MetaWeight(meta, c.brain_id)) \div 100
    IN  (calibrated * (100 - ExplorationPct)) \div 100 + c.noise

Score(c, cand, meta, cfg) ==
    Calibrated(c, cand, meta) + ConsensusBonus(cfg, cand, c.jogo)

\* BrainHub.generate_candidates
\* the second loop of generate_candidates, col being what the first gave
Calibrar(col, m, cfg) ==
    IF col.raised THEN col
    ELSE [raised |-> FALSE,
          cand |-> [i \in DOMAIN col.cand |->
                      [jogo |-> col.cand[i].jogo,
                       score_raw |-> col.cand[i].score_raw,
                       brain_id |-> col.cand[i].brain_id,
                       rel |-> col.cand[i].rel,
                       consensus_votes |-> ConsensusVotes(cfg, col.cand, col.cand[i].jogo),
                       score |-> Score(col.cand[i], col.cand, m, cfg)]]]

GenerateCandidates(sorteio, m, cfg, size, per_brain) ==
    Calibrar(Collect(1, sorteio, size, per_brain, <<>>), m, cfg)

\* candidatos.sort(key=score, reverse=True): stable
RECURSIVE InsertDesc(_, _)
InsertDesc(s, c) ==
    IF s = <<>> THEN <<c>>
    ELSE IF s[Len(s)].score >= c.score THEN Append(s, c)
    ELSE Append(InsertDesc(SubSeq(s, 1, Len(s) - 1), c), s[Len(s)])

RECURSIVE SortDesc(_)
SortDesc(s) ==
    IF s = <<>> THEN <<>>
    ELSE InsertDesc(SortDesc(SubSeq(s, 1, Len(s) - 1)), s[Len(s)])

\* the state of diversify: escolhidos and brain_counts
DivVazio == [escolhidos |-> <<>>, brain_counts |-> [b \in BrainIds |-> 0]]

\* a pick that compares the candidate with the last accepted one only
PickOneLastOnly(c, st, max_per_brain, threshold) ==
    IF st.brain_counts[c.brain_id] >= max_per_brain THEN st
    ELSE IF st.escolhidos # <<>>
            /\ JaccardGE(c.jogo, st.escolhidos[Len(st.escolhidos)].jogo, threshold)
    THEN st
    ELSE [escolhidos |-> Append(st.escolhidos, c),
          brain_counts |-> [st.brain_counts EXCEPT ![c.brain_id] = @ + 1]]

\* a pick that compares the candidate with the accepted games of the other
\* brains only
PickOneOutrosCerebros(c, st, max_per_brain, threshold) ==
    IF st.brain_counts[c.brain_id] >= max_per_brain THEN st
    ELSE IF \E k \in DOMAIN st.escolhidos :
               /\ st.escolhidos[k].brain_id # c.brain_id
               /\ JaccardGE(c.jogo, st.escolhidos[k].jogo, threshold)
    THEN st
    ELSE [escolhidos |-> Append(st.escolhidos, c),
          brain_counts |-> [st.brain_counts EXCEPT ![c.brain_id] = @ + 1]]

\* one step of the walk of pick_with_threshold
PickOne(c, st, max_per_brain, threshold) ==
    IF st.brain_counts[c.brain_id] >= max_per_brain THEN st
    ELSE IF \E k \in DOMAIN st.escolhidos : JaccardGE(c.jogo, st.escolhidos[k].jogo, threshold)
    THEN st
    ELSE [escolhidos |-> Append(st.escolhidos, c),
          brain_counts |-> [st.brain_counts EXCEPT ![c.brain_id] = @ + 1]]

\* pick_with_threshold(threshold), from candidate i on
RECURSIVE PickFrom(_, _, _, _, _, _)
PickFrom(i, candidatos, st, top_n, max_per_brain, threshold) ==
    IF i > Len(candidatos) \/ Len(st.escolhidos) >= top_n THEN st
    ELSE PickFrom(i + 1, candidatos,
                  PickOne(candidatos[i], st, max_per_brain, threshold),
                  top_n, max_per_brain, threshold)

\* a pass that starts its per-brain counts from zero
PickWithThresholdRecount(candidatos, st, top_n, max_per_brain, threshold) ==
    PickFrom(1, candidatos, [st EXCEPT !.brain_counts = DivVazio.brain_counts],
             top_n, max_per_brain, threshold)

PickWithThreshold(candidatos, st, top_n, max_per_brain, threshold) ==
    PickFrom(1, candidatos, st, top_n, max_per_brain, threshold)

\* a relaxation step that does not stop at the ceiling
NextRelaxSemTeto(relax) == relax + RelaxStepPct

\* relax = min(0.98, relax + 0.03)
NextRelax(relax) == Min2(RelaxCeilPct, relax + RelaxStepPct)

\* while len(escolhidos) < top_n and relax < 0.98
RelaxGuard(st, top_n, relax) == Len(st.escolhidos) < top_n /\ relax < RelaxCeilPct

RECURSIVE RelaxLoop(_, _, _, _, _, _)
RelaxLoop(candidatos, st, top_n, max_per_brain, relax, passes) ==
    IF RelaxGuard(st, top_n, relax)
    THEN RelaxLoop(candidatos,
                   PickWithThreshold(candidatos, st, top_n, max_per_brain, NextRelax(relax)),
                   top_n, max_per_brain, NextRelax(relax), passes + 1)
    ELSE [st |-> st, relax |-> relax, passes |-> passes]

\* escolhidos[:top_n]
Take(s, n) == SubSeq(s, 1, Min2(Max2(n, 0), Len(s)))

\* BrainHub.diversify: the batch, the threshold of the last pass and the
\* number of passes
DiversifyFim(fim, top_n) ==
    [jogos |-> Take(fim.st.escolhidos, top_n),
     brain_counts |-> fim.st.brain_counts,
     relax |-> fim.relax,
     passes |-> fim.passes]

DiversifySorted(sorted, top_n, max_sim, max_per_brain) ==
    DiversifyFim(RelaxLoop(sorted,
                           PickWithThreshold(sorted, DivVazio, top_n, max_per_brain, max_sim),
                           top_n, max_per_brain, max_sim, 1),
                 top_n)

Diversify(candidatos, top_n, max_sim, max_per_brain) ==
    DiversifySorted(SortDesc(candidatos), top_n, max_sim, max_per_brain)

\* generate_games: max_sim and max_per_brain for a request
MaxSim(size, n_cand, top_n) ==
    LET base == IF size = 15 THEN 80 ELSE 88
    IN  IF n_cand < 2 * Max2(1, top_n) THEN Min2(95, base + 5) ELSE base

SharePct(size) == IF size = 15 THEN MaxBrainSharePct ELSE Min2(50, MaxBrainSharePct + 10)

MaxPerBrainOf(cfg, size, top_n) ==
    LET m == Max2(2, (top_n * SharePct(size)) \div 100)
    IN  IF cfg.quota_enabled /\ cfg.quota_max_per_brain > 0
        THEN Min2(m, cfg.quota_max_per_brain)
        ELSE m

\* BrainHub.generate_games
\* the rest of generate_games, gc being what generate_candidates gave
GamesDe(gc, cfg, size, top_n) ==
    IF gc.raised
    THEN [raised |-> TRUE, jogos |-> <<>>, n_cand |-> 0]
    ELSE [raised |-> FALSE,
          jogos |-> Diversify(gc.cand, top_n,
                              MaxSim(size, Len(gc.cand), top_n),
                              MaxPerBrainOf(cfg, size, top_n)).jogos,
          n_cand |-> Len(gc.cand)]

GenerateGames(sorteio, m, cfg, size, per_brain, top_n) ==
    GamesDe(GenerateCandidates(sorteio, m, cfg, size, per_brain), cfg, size, top_n)

(***************************************************************************)
(* One call of BrainHub.generate_games, step by step                       *)
(***************************************************************************)
VARIABLES
    h_pc,        \* "idle" | "collected" | "picking" | "returned" | "raised"
    h_req,       \* the request: size, per_brain, top_n, and the hub's quota
    h_sorteio,   \* what each brain does during the call
    h_cand,      \* candidatos, sorted by diversify
    h_div,       \* escolhidos and brain_counts
    h_relax,     \* the threshold of the last pass, in hundredths
    h_passes,    \* passes of pick_with_threshold so far
    h_ret        \* the list generate_games returned

hubVars == <<h_pc, h_req, h_sorteio, h_cand, h_div, h_relax, h_passes, h_ret>>

(***************************************************************************)
(* The replay loop of trainer_v2 (treinar_pendencias under run)            *)
(***************************************************************************)
VARIABLES
    \* the store
    concursos,         \* positions that have a row in table concursos
    checkpoint,        \* checkpoint.ultimo_concurso_processado (0: no row)
    tentativas,        \* table tentativas, in insertion order
    memoria_jogos,     \* table memoria_jogos, in insertion order
    \* the process
    pc,                \* "stopped" | "loop" | "tentativa" | "memoria" |
                       \* "learn" | "checkpoint" | "returned" | "failed"
    pendentes,         \* the positions this run walks
    idx,               \* index into pendentes
    concurso_n,        \* the position being processed
    top_por_tamanho,   \* the evaluated items of the position
    tentativa,         \* the item being persisted, counted from 1
    meta,              \* hub.meta
    cenario,           \* what the brains of this run do when asked
    erro,              \* the exception that ended the run
    ok,                \* what the last _insert_memoria_forte returned
    \* history
    tamanhos_feitos,   \* sizes generated and evaluated for concurso_n
    tamanhos_vazios,   \* sizes for which the hub returned no candidate
    completos,         \* positions whose items were all persisted and learned
    pulados,           \* positions skipped for a missing outcome
    escritas,          \* every value written to the checkpoint, in order
    falhou,            \* the position a store write failed for in this run
    interrupcoes,      \* kills and failed writes so far
    meta_fim           \* hub.meta as it was when the last run ended

storeVars == <<concursos, checkpoint, tentativas, memoria_jogos>>

procVars == <<pc, pendentes, idx, concurso_n, top_por_tamanho, tentativa, meta, cenario, erro, ok>>

histVars == <<tamanhos_feitos, tamanhos_vazios, completos, pulados, escritas, falhou,
              interrupcoes, meta_fim>>

treinoVars == <<storeVars, procVars, histVars>>

(***************************************************************************)
(* The block walk of backtest_engine.main                                  *)
(***************************************************************************)
VARIABLES
    checkpoint_backtest,  \* checkpoint_backtest.ultimo_concurso_processado (0: no row)
    bt_pc,                \* "stopped" | "ciclo" | "bloco" | "finished" | "failed"
    bt_args,              \* --steps, --block-size and whether a time limit is set
    trainable,            \* the positions that have a successor, ascending
    pos,                  \* index of the next position of the walk, from 0
    block,                \* the block being processed
    bt_i,                 \* index into block, from 1
    steps_done,           \* positions processed in this run
    bt_escritas,          \* every value written to checkpoint_backtest, in order
    bt_rodados,           \* the positions run_one_concurso was called for
    bt_execucoes          \* runs of main started so far

btVars == <<checkpoint_backtest, bt_pc, bt_args, trainable, pos, block, bt_i,
            steps_done, bt_escritas, bt_rodados, bt_execucoes>>

(***************************************************************************)
(* The brains as objects: what they learned, in memory and in the store    *)
(***************************************************************************)
VARIABLES
    fr,                \* the StatFreqRecenteBrain instance: janela, buffer, freq, state
    st,                \* the HeuristicStepSequencesBrain instance: state, _recent_meta
    cerebro_estado,    \* table cerebro_estado: estado_json of each brain
    cerebro_performance, \* table cerebro_performance: one row per brain and position
    original,          \* the two instances as they were before the last load_state
    br_pc,             \* "vivo" | "salvo" | "recarregado" | "reiniciado"
    learn_pos,         \* the position whose outcome the learn calls carry
    learn_calls,       \* hub.learn calls with new arguments so far
    ultima,            \* the arguments of the last hub.learn call of this position
    repeticoes,        \* hub.learn calls that repeated the arguments of the last
    salvamentos,       \* hub.save_all calls so far
    gerados            \* candidates built by generate so far

brainVars == <<fr, st, cerebro_estado, cerebro_performance, original, br_pc, learn_pos, learn_calls,
               ultima, repeticoes, salvamentos, gerados>>

(***************************************************************************)
(* The context of a position                                               *)
(***************************************************************************)
VARIABLES
    context,           \* the dict _build_context returned last
    ctx_concursos      \* the positions table concursos held when it was built

ctxVars == <<context, ctx_concursos>>

(***************************************************************************)
(* The snapshots of the brains' state along the replay loop                *)
(***************************************************************************)
VARIABLES
    ps_tabela,         \* the positions of table concursos during the call
    ps_pend,           \* pendentes of this treinar_pendencias call
    ps_idx,            \* idx of enumerate(pendentes, 1)
    ps_pc,             \* "loop" | "checkpointed" | "done" | "killed"
    ps_checkpoint,     \* the checkpoint row
    ps_desde           \* positions checkpointed since the last hub.save_all

persistVars == <<ps_tabela, ps_pend, ps_idx, ps_pc, ps_checkpoint, ps_desde>>

\* the enabled flag of each brain: the attribute of the live instance and
\* the habilitado column of cerebros
VARIABLES
    fl_pc,          \* "off", "bt_ciclo", "bt_bloco" or "treino"
    fl_enabled,     \* brain.enabled of the running process
    fl_habilitado,  \* cerebros.habilitado
    fl_antes        \* cerebros.habilitado when the last backtest started

flagVars == <<fl_pc, fl_enabled, fl_habilitado, fl_antes>>


\* compaction of one candidate in generate_for_size
VARIABLES
    cg_pc,      \* "idle", "loop" or "done"
    cg_args,    \* jogo, target_size, cores, freq and pair_scores of the call
    cg_passo,   \* 1: compactar_por_custo, 2: the compact_game call after it
    cg_atual,   \* jogo_atual
    cg_ret1,    \* what compactar_por_custo returned
    cg_ret2     \* what the second compact_game returned

compactVars == <<cg_pc, cg_args, cg_passo, cg_atual, cg_ret1, cg_ret2>>


\* the trainer in loop mode (run with --loop and --limite)
VARIABLES
    lp_pc,          \* "off", "treinar", "pendentes", "for" or "dorme"
    lp_tabela,      \* the stored positions
    lp_concursos,   \* concursos = _fetch_all_concursos(conn) of the current call
    lp_limite,      \* --limite
    lp_checkpoint,  \* the trainer's checkpoint
    lp_pend,        \* pendentes of the current call
    lp_i,           \* position of the for loop in pendentes
    lp_msg          \* "sem_novos" or "ok": the summary of the last call

loopVars == <<lp_pc, lp_tabela, lp_concursos, lp_limite, lp_checkpoint, lp_pend, lp_i, lp_msg>>


\* the web dashboard: task statuses, request handlers and worker threads
VARIABLES
    wd_status,  \* TASKS[name].status
    wd_procs,   \* live subprocesses per task name
    wd_req,     \* the request handlers in flight
    wd_thr      \* the worker threads

dashVars == <<wd_status, wd_procs, wd_req, wd_thr>>


vars == <<hubVars, treinoVars, btVars, brainVars, ctxVars, persistVars, flagVars, compactVars, loopVars, dashVars>>

\* what a step of one component leaves alone
foraHub == <<treinoVars, btVars, brainVars, ctxVars, persistVars, flagVars, compactVars, loopVars, dashVars>>

foraTreino == <<hubVars, btVars, brainVars, ctxVars, persistVars, flagVars, compactVars, loopVars, dashVars>>

foraBt == <<hubVars, procVars, histVars, checkpoint, tentativas, memoria_jogos, brainVars,
            ctxVars, persistVars, flagVars, compactVars, loopVars, dashVars>>

foraBrain == <<hubVars, btVars, storeVars, histVars, pc, pendentes, idx, concurso_n,
               top_por_tamanho, tentativa, cenario, erro, ok, ctxVars, persistVars, flagVars, compactVars, loopVars, dashVars>>

foraContext == <<hubVars, btVars, brainVars, procVars, histVars, checkpoint, tentativas,
                 memoria_jogos, persistVars, flagVars, compactVars, loopVars, dashVars>>

foraPersist == <<hubVars, treinoVars, btVars, brainVars, ctxVars, flagVars, compactVars, loopVars, dashVars>>

foraFlag == <<hubVars, treinoVars, btVars, brainVars, ctxVars, persistVars, compactVars, loopVars, dashVars>>

foraCompact == <<hubVars, treinoVars, btVars, brainVars, ctxVars, persistVars, flagVars, loopVars, dashVars>>

foraLoop == <<hubVars, treinoVars, btVars, brainVars, ctxVars, persistVars, flagVars, compactVars, dashVars>>

foraDash == <<hubVars, treinoVars, btVars, brainVars, ctxVars, persistVars, flagVars, compactVars, loopVars>>

\* the inputs the calls are drawn from
TamanhosPedidos == {JogoMinDezenas, JogoMaxDezenas}

FreqStarts == {0, 1, 2, 3}

StepsStarts == {1, 2}

StartsOf(b) == IF b = FREQ THEN FreqStarts ELSE StepsStarts

\* evaluate_context of a brain with no history yet, in hundredths
RelOf(b) == IF b = FREQ THEN 55 ELSE 60

NoiseMax == ExplorationPct * 10000

\* score_game is a function of the game: the value it gives the game drawn
\* with start d
ScoreGameDe(d) == d % 2

SorteioParado(b, modo, rel, n) ==
    [modo |-> modo, rel |-> rel,
     draws |-> [k \in 1..n |-> 1], raws |-> [k \in 1..n |-> 0],
     noise |-> [k \in 1..n |-> 0]]

SorteiosDe(b, n) ==
    {[modo |-> "ok", rel |-> RelOf(b), draws |-> d,
      raws |-> [k \in 1..n |-> ScoreGameDe(d[k])],
      noise |-> [k \in 1..n |-> z]] :
        d \in [1..n -> StartsOf(b)], z \in {0, NoiseMax}}
    \cup {SorteioParado(b, "disabled", RelOf(b), n),
          SorteioParado(b, "raises", RelOf(b), n),
          SorteioParado(b, "ok", 0, n)}

Sorteios(n) == {[b \in BrainIds |-> IF b = FREQ THEN f ELSE g] :
                    f \in SorteiosDe(FREQ, n), g \in SorteiosDe(STEPS, n)}

\* a consensus bonus of 0.1, in 1e-6
BonusConsenso == 100000

\* the keyword arguments a BrainHub is constructed with
HubArgs(quota_enabled, quota_max_per_brain, consensus_enabled, consensus_bonus, consensus_min_votes) ==
    [quota_enabled |-> quota_enabled,
     quota_max_per_brain |-> quota_max_per_brain,
     consensus_enabled |-> consensus_enabled,
     consensus_bonus |-> consensus_bonus,
     consensus_min_votes |-> consensus_min_votes]

NovoHubDe(a) ==
    NovoHub(a.quota_enabled, a.quota_max_per_brain, a.consensus_enabled, a.consensus_bonus,
            a.consensus_min_votes)

HubConfigs == {HubArgs(FALSE, 0, FALSE, 0, 2),
               HubArgs(TRUE, 1, FALSE, 0, 2),
               HubArgs(FALSE, 0, TRUE, BonusConsenso, 1),
               HubArgs(FALSE, 0, TRUE, BonusConsenso, 2),
               HubArgs(FALSE, 0, TRUE, BonusConsenso, 3)}

SemPedido == [size |-> JogoMaxDezenas, per_brain |-> 1, top_n |-> 1,
              cfg |-> NovoHub(FALSE, 0, FALSE, 0, 2),
              args |-> HubArgs(FALSE, 0, FALSE, 0, 2)]

SemSorteio == [b \in BrainIds |-> SorteioParado(b, "disabled", RelOf(b), 1)]

InitHubVars ==
    /\ h_pc = "idle"
    /\ h_req = SemPedido
    /\ h_sorteio = SemSorteio
    /\ h_cand = <<>>
    /\ h_div = DivVazio
    /\ h_relax = 0
    /\ h_passes = 0
    /\ h_ret = <<>>

\* generate_games is called: generate_candidates runs (or raises)
HubCall ==
    /\ h_pc = "idle"
    /\ \E size \in TamanhosPedidos, top_n \in 1..MaxTopN, n \in 1..MaxPerBrain,
          cfg \in HubConfigs :
          \E s \in Sorteios(n) :
            \E gc \in {GenerateCandidates(s, MetaVazia, NovoHubDe(cfg), size, n)} :
                /\ h_req' = [size |-> size, per_brain |-> n, top_n |-> top_n,
                             cfg |-> NovoHubDe(cfg), args |-> cfg]
                /\ h_sorteio' = s
                /\ h_pc' = IF gc.raised THEN "raised" ELSE "collected"
                /\ h_cand' = gc.cand
    /\ h_div' = DivVazio
    /\ h_relax' = 0
    /\ h_passes' = 0
    /\ h_ret' = <<>>
    /\ UNCHANGED foraHub

\* diversify: the sort and the first pick_with_threshold(max_sim)
HubFirstPass ==
    /\ h_pc = "collected"
    /\ LET sorted == SortDesc(h_cand)
           max_sim == MaxSim(h_req.size, Len(h_cand), h_req.top_n)
       IN  /\ h_cand' = sorted
           /\ h_relax' = max_sim
           /\ h_div' = PickWithThreshold(sorted, DivVazio, h_req.top_n,
                                         MaxPerBrainOf(h_req.cfg, h_req.size, h_req.top_n),
                                         max_sim)
    /\ h_passes' = 1
    /\ h_pc' = "picking"
    /\ UNCHANGED <<h_req, h_sorteio, h_ret>>
    /\ UNCHANGED foraHub

\* one iteration of the relaxation loop
HubRelax ==
    /\ h_pc = "picking"
    /\ RelaxGuard(h_div, h_req.top_n, h_relax)
    /\ h_relax' = NextRelax(h_relax)
    /\ h_div' = PickWithThreshold(h_cand, h_div, h_req.top_n,
                                  MaxPerBrainOf(h_req.cfg, h_req.size, h_req.top_n),
                                  NextRelax(h_relax))
    /\ h_passes' = h_passes + 1
    /\ UNCHANGED <<h_pc, h_req, h_sorteio, h_cand, h_ret>>
    /\ UNCHANGED foraHub

\* the loop ends: return escolhidos[:top_n]
HubReturn ==
    /\ h_pc = "picking"
    /\ ~RelaxGuard(h_div, h_req.top_n, h_relax)
    /\ h_ret' = Take(h_div.escolhidos, h_req.top_n)
    /\ h_pc' = "returned"
    /\ UNCHANGED <<h_req, h_sorteio, h_cand, h_div, h_relax, h_passes>>
    /\ UNCHANGED foraHub

\* the caller has the result (or the exception); the hub is idle again
HubDone ==
    /\ h_pc \in {"returned", "raised"}
    /\ h_pc' = "idle"
    /\ h_req' = SemPedido
    /\ h_sorteio' = SemSorteio
    /\ h_cand' = <<>>
    /\ h_div' = DivVazio
    /\ h_relax' = 0
    /\ h_passes' = 0
    /\ h_ret' = <<>>
    /\ UNCHANGED foraHub

(***************************************************************************)
(* Properties of one generate_games call                                   *)
(***************************************************************************)
\* the threshold generate_games passed to diversify for the current request
MaxSimPedido == MaxSim(h_req.size, Len(h_cand), h_req.top_n)

MaxPerBrainPedido == MaxPerBrainOf(h_req.cfg, h_req.size, h_req.top_n)

\* how many games of the returned batch came from brain b
DoCerebro(b) == Cardinality({i \in DOMAIN h_ret : h_ret[i].brain_id = b})

\* C7: when a brain raises inside generate or score_game, the round does
\* not abort: the call still returns a batch, built from the other brains.
C7_RaisingBrainContained ==
    (h_pc # "idle" /\ \E b \in BrainIds : h_sorteio[b].modo = "raises")
        => h_pc # "raised"

\* C8: in a batch returned by diversify, every two accepted candidates have
\* a Jaccard similarity strictly below the threshold in effect at the end
\* of the call, and that threshold never exceeds the 0.98 ceiling; a batch
\* that could not be filled stays shorter than top_n.
C8_PairsBelowThreshold ==
    h_pc = "returned" =>
        /\ h_relax <= RelaxCeilPct
        /\ Len(h_ret) <= h_req.top_n
        /\ \A i, j \in DOMAIN h_ret :
              i # j => ~JaccardGE(h_ret[i].jogo, h_ret[j].jogo, h_relax)

\* a returned batch holding a pair that only a relaxed pass could accept
C8_Witness ==
    /\ h_pc = "returned"
    /\ h_passes > 1
    /\ \E i, j \in DOMAIN h_ret :
          i # j /\ JaccardGE(h_ret[i].jogo, h_ret[j].jogo, MaxSimPedido)

\* C9: in a returned batch, no brain has more accepted candidates than
\* max_per_brain, the first pass and all relaxation passes taken together.
C9_PerBrainCap ==
    h_pc = "returned" =>
        \A b \in BrainIds : DoCerebro(b) <= MaxPerBrainPedido

\* the cap was what kept a candidate out: after at least one relaxed pass
\* the batch is short, a brain is at its cap, and one more game of that
\* brain is dissimilar enough from every accepted game
C9_Witness ==
    /\ h_pc = "returned"
    /\ h_passes > 1
    /\ Len(h_ret) < h_req.top_n
    /\ \E b \in BrainIds :
          /\ DoCerebro(b) = MaxPerBrainPedido
          /\ \E k \in DOMAIN h_cand :
                /\ h_cand[k].brain_id = b
                /\ \A i \in DOMAIN h_ret :
                      ~JaccardGE(h_cand[k].jogo, h_ret[i].jogo, h_relax)

\* C10: every candidate the hub returns for a requested size has exactly
\* that many numbers, all distinct and all within 1..31.
C10_SizeAndRange ==
    h_pc = "returned" =>
        \A i \in DOMAIN h_ret :
            /\ h_ret[i].jogo \subseteq UNIVERSO
            /\ Cardinality(h_ret[i].jogo) = h_req.size

\* the raw scores the brain of candidate i gave in the batch
RawsDoCerebro(i) == RawsOf(h_cand, h_cand[i].brain_id)

\* (raw - min)/(max - min) over the brain's own raw scores, in hundredths,
\* and 0.5 when they are all equal
NormEsperada(i) ==
    IF Cardinality(RawsDoCerebro(i)) = 1 THEN 50
    ELSE ((h_cand[i].score_raw - MinOf(RawsDoCerebro(i))) * 100)
            \div (MaxOf(RawsDoCerebro(i)) - MinOf(RawsDoCerebro(i)))

\* the score that normalised value gives with no noise and no bonus, in 1e-6
ScoreBase(i) ==
    ((((NormEsperada(i) * 65 + h_cand[i].rel * 35) * MetaWeight(MetaVazia, h_cand[i].brain_id))
        \div 100) * (100 - ExplorationPct)) \div 100

\* the brains that proposed exactly the number set of candidate i
Proponentes(i) ==
    {b \in BrainIds : \E k \in DOMAIN h_cand :
        h_cand[k].brain_id = b /\ h_cand[k].jogo = h_cand[i].jogo}

\* C19: the normalised score of every candidate is within [0, 1], it is
\* computed from the minimum and maximum raw score of the candidate's own
\* brain, and it is exactly 0.5 for every candidate of a brain whose raw
\* scores in the batch are all equal; the score of the candidate is the one
\* that value gives, up to the noise and the consensus bonus.
C19_NormPerBrain ==
    \A i \in DOMAIN h_cand :
        /\ Norm(h_cand[i], h_cand) \in 0..100
        /\ Norm(h_cand[i], h_cand) = NormEsperada(i)
        /\ Cardinality(RawsDoCerebro(i)) = 1 => Norm(h_cand[i], h_cand) = 50
        /\ (h_cand[i].score - ScoreBase(i)
              - ConsensusBonus(h_req.cfg, h_cand, h_cand[i].jogo)) \in 0..NoiseMax

\* one brain gave its two candidates the same raw score while the other
\* brain's raw scores differ
C19_Witness ==
    /\ h_pc = "collected"
    /\ \E i, k \in DOMAIN h_cand :
          /\ i # k
          /\ h_cand[i].brain_id = h_cand[k].brain_id
          /\ Cardinality(RawsDoCerebro(i)) = 1
          /\ Norm(h_cand[i], h_cand) = 50
    /\ \E i, k \in DOMAIN h_cand :
          /\ h_cand[i].brain_id = h_cand[k].brain_id
          /\ Norm(h_cand[i], h_cand) = 0
          /\ Norm(h_cand[k], h_cand) = 100

C21_ReturnedOrdered ==
    h_pc = "returned" =>
        /\ Len(h_ret) <= h_req.top_n
        /\ \A i, k \in DOMAIN h_ret : i < k => h_ret[i].score >= h_ret[k].score


\* s is the beginning of t
IsPrefix(s, t) == Len(s) <= Len(t) /\ SubSeq(t, 1, Len(s)) = s

\* C24: a relaxation pass of diversify keeps every accepted candidate at
\* its place in the batch; the threshold only rises, by 0.03 or by what is
\* left up to the 0.98 ceiling, and never exceeds the ceiling; a pass runs
\* only while the batch is short of top_n and the last pass was below the
\* ceiling, so the number of passes is bounded and the call ends.
C24_RelaxationKeepsAccepted ==
    /\ [][(h_pc = "picking" /\ h_passes' = h_passes + 1) =>
            /\ IsPrefix(h_div.escolhidos, h_div'.escolhidos)
            /\ h_relax' > h_relax
            /\ h_relax' = h_relax + RelaxStepPct
                  \/ (h_relax' = RelaxCeilPct /\ h_relax' < h_relax + RelaxStepPct)
            /\ Len(h_div.escolhidos) < h_req.top_n
            /\ h_relax < RelaxCeilPct]_vars
    /\ [][(h_pc = "picking" /\ h_div' # h_div) =>
            (h_passes' = h_passes + 1 \/ h_pc' = "idle")]_vars
    /\ [](h_relax <= RelaxCeilPct)
    /\ [](h_pc \in {"picking", "returned"} =>
            (h_passes - 1) * RelaxStepPct < (h_relax - MaxSimPedido) + RelaxStepPct)

\* a call that relaxed up to the ceiling with a clipped last step, took a
\* candidate in a relaxed pass and still came back short of top_n
C24_Witness ==
    /\ h_pc = "returned"
    /\ h_relax = RelaxCeilPct
    /\ (h_relax - MaxSimPedido) % RelaxStepPct # 0
    /\ h_passes >= 3
    /\ Len(h_ret) >= 2
    /\ Len(h_ret) < h_req.top_n
(***************************************************************************)
(* trainer_v2: helpers of the replay loop                                  *)
(***************************************************************************)
\* ORDER BY concurso ASC
RECURSIVE SortAsc(_)
SortAsc(S) ==
    IF S = {} THEN <<>>
    ELSE LET m == MinOf(S) IN <<m>> \o SortAsc(S \ {m})


\* C29: a returned batch never holds the same number set twice, whichever
\* of the thresholds the call started with and however many relaxation
\* passes it took, whether the set was proposed by two brains or twice by
\* one.
C29_NoRepeatedGame ==
    h_pc = "returned" =>
        \A i, k \in DOMAIN h_ret : i # k => h_ret[i].jogo # h_ret[k].jogo

\* a call that relaxed to the ceiling and came back short of top_n although
\* one set had been proposed by both brains and another twice by one brain
C29_Witness ==
    /\ h_pc = "returned"
    /\ h_relax = RelaxCeilPct
    /\ Len(h_ret) < h_req.top_n
    /\ \E i, k \in DOMAIN h_cand :
          /\ h_cand[i].brain_id # h_cand[k].brain_id
          /\ h_cand[i].jogo = h_cand[k].jogo
          /\ \E r \in DOMAIN h_ret : h_ret[r].jogo = h_cand[i].jogo
    /\ \E i, k \in DOMAIN h_cand :
          /\ i # k
          /\ h_cand[i].brain_id = h_cand[k].brain_id
          /\ h_cand[i].jogo = h_cand[k].jogo
          /\ DoCerebro(h_cand[i].brain_id) < MaxPerBrainPedido
FetchAllConcursos(cs) == SortAsc(cs)

\* an outcome of fifteen numbers, as a game with fifteen drawn numbers has
ResultadoQuinze(c) == {WrapNumber(c + j, UniversoMax) : j \in 0..14}

\* the seven numbers drawn at contest c, as the row of table concursos
\* holds them
Resultado(c) == {WrapNumber(c + 2 * j, UniversoMax) : j \in 0..6}

\* _fetch_result: {} stands for None
FetchResult(cs, c) == IF c \in cs THEN Resultado(c) ELSE {}

\* `if not resultado_n1`
SemResultado(resultado_n1) == resultado_n1 = {}

\* every stored position up to the second to last, whatever the checkpoint
PendentesTodos(lista, ck) ==
    LET max_treino == lista[Len(lista) - 1]
    IN  SortAsc({c \in Range(lista) : c <= max_treino})

\* pendentes = [c for c in concursos if c > ck and c <= max_treino]
Pendentes(lista, ck) ==
    LET max_treino == lista[Len(lista) - 1]
    IN  SortAsc({c \in Range(lista) : c > ck /\ c <= max_treino})

\* comparador.contar_acertos
ContarAcertos(jogo, resultado) ==
    IF jogo = {} \/ resultado = {} THEN 0 ELSE Cardinality(jogo \cap resultado)

\* avaliados.sort(key=(acertos, score), reverse=True): stable
AvalGE(a, b) == a.acertos > b.acertos \/ (a.acertos = b.acertos /\ a.score >= b.score)

RECURSIVE InsertAval(_, _)
InsertAval(s, c) ==
    IF s = <<>> THEN <<c>>
    ELSE IF AvalGE(s[Len(s)], c) THEN Append(s, c)
    ELSE Append(InsertAval(SubSeq(s, 1, Len(s) - 1), c), s[Len(s)])

RECURSIVE SortAval(_)
SortAval(s) ==
    IF s = <<>> THEN <<>>
    ELSE InsertAval(SortAval(SubSeq(s, 1, Len(s) - 1)), s[Len(s)])

\* _rank_and_select
RankAndSelect(candidatos, resultado_n1, avaliar_top_k, tipo) ==
    LET top == Take(candidatos, avaliar_top_k)
    IN  SortAval([i \in DOMAIN top |->
                    [jogo |-> top[i].jogo,
                     acertos |-> ContarAcertos(top[i].jogo, resultado_n1),
                     score |-> top[i].score,
                     brain_id |-> top[i].brain_id,
                     tipo |-> tipo]])

\* the hub the trainer builds when no quota is asked for
TreinoCfg == NovoHub(FALSE, 0, FALSE, 0, 2)

\* for tamanho in range(jogo_min_dezenas, jogo_max_dezenas + 1):
\*     top_por_tamanho.extend(_rank_and_select(hub.generate_games(...)))
\* the body of the loop for one size, g being what generate_games gave
JuntarTamanho(acc, g, resultado_n1, tamanho) ==
    IF g.raised THEN [acc EXCEPT !.raised = TRUE]
    ELSE [raised |-> FALSE,
          top |-> acc.top \o RankAndSelect(g.jogos, resultado_n1, TreinoTopK, tamanho),
          feitos |-> acc.feitos \cup {tamanho},
          vazios |-> IF g.n_cand = 0 THEN acc.vazios \cup {tamanho} ELSE acc.vazios]

RECURSIVE GerarTamanhos(_, _, _, _, _)
GerarTamanhos(tamanho, sorteio, m, resultado_n1, acc) ==
    IF tamanho > JogoMaxDezenas \/ acc.raised THEN acc
    ELSE GerarTamanhos(tamanho + 1, sorteio, m, resultado_n1,
                       JuntarTamanho(acc,
                                     GenerateGames(sorteio, m, TreinoCfg, tamanho,
                                                   TreinoPorCerebro, TreinoTopN),
                                     resultado_n1, tamanho))

TamanhosTreino == JogoMinDezenas..JogoMaxDezenas

\* the d1..d15 columns: the sorted numbers, the first 15 of them
RECURSIVE Menores(_, _)
Menores(S, n) ==
    IF n = 0 \/ S = {} THEN {}
    ELSE LET m == MinOf(S) IN {m} \cup Menores(S \ {m}, n - 1)

Payload(dezenas) == Menores(dezenas, JogoMaxDezenas)

\* the row _insert_tentativa writes
LinhaTentativa(n, it, t) ==
    [concurso_n |-> n, concurso_n1 |-> n + 1, tipo_jogo |-> it.tipo,
     tentativa |-> t, dezenas |-> Payload(it.jogo), acertos |-> it.acertos,
     score |-> it.score, brain_id |-> it.brain_id]

\* the row _insert_memoria_forte writes
LinhaMemoria(n, it) ==
    [concurso_n |-> n, concurso_n1 |-> n + 1, tipo_jogo |-> it.tipo,
     dezenas |-> Payload(it.jogo), acertos |-> it.acertos,
     origem |-> it.brain_id]

\* the uniqueness key of table memoria_jogos
ChaveMemoria(r) == <<r.concurso_n, r.concurso_n1, r.tipo_jogo, r.dezenas>>

\* a plain INSERT into memoria_jogos
InsertMemoriaSempre(tabela, linha) ==
    IF linha.acertos < SalvarMemoriaMin THEN [tabela |-> tabela, inserted |-> FALSE]
    ELSE [tabela |-> Append(tabela, linha), inserted |-> TRUE]

\* _insert_memoria_forte: INSERT OR IGNORE, returns rowcount > 0
InsertMemoriaForte(tabela, linha) ==
    IF linha.acertos < SalvarMemoriaMin THEN [tabela |-> tabela, inserted |-> FALSE]
    ELSE IF \E i \in DOMAIN tabela : ChaveMemoria(tabela[i]) = ChaveMemoria(linha)
    THEN [tabela |-> tabela, inserted |-> FALSE]
    ELSE [tabela |-> Append(tabela, linha), inserted |-> TRUE]

\* BrainHub.learn: the credit given to the brain of origin
HubLearn(m, brain_id, pontos) ==
    [m EXCEPT ![brain_id] =
        [usos |-> @.usos + 1,
         pontos |-> @.pontos + pontos,
         q14 |-> @.q14 + (IF pontos >= 14 THEN 1 ELSE 0),
         q15 |-> @.q15 + (IF pontos >= 15 THEN 1 ELSE 0)]]

\* what the brains of one run do when the hub asks them: the state of their
\* `enabled` flags and of the random generator of the process
SorteioTreino(modo, d, z) ==
    [b \in BrainIds |->
        [modo |-> modo, rel |-> RelOf(b),
         draws |-> [k \in 1..TreinoPorCerebro |-> d],
         raws |-> [k \in 1..TreinoPorCerebro |-> ScoreGameDe(d)],
         noise |-> [k \in 1..TreinoPorCerebro |-> IF b = FREQ THEN z ELSE 0]]]

SorteiosTreino ==
    {SorteioTreino("ok", 1, NoiseMax), SorteioTreino("ok", 2, 0),
     SorteioTreino("disabled", 1, 0), SorteioTreino("raises", 1, 0)}

(***************************************************************************)
(* trainer_v2: the steps of the replay loop                                *)
(***************************************************************************)
InitTreinoVars ==
    /\ concursos = {}
    /\ checkpoint = 0
    /\ tentativas = <<>>
    /\ memoria_jogos = <<>>
    /\ pc = "stopped"
    /\ pendentes = <<>>
    /\ idx = 0
    /\ concurso_n = 0
    /\ top_por_tamanho = <<>>
    /\ tentativa = 0
    /\ meta = MetaVazia
    /\ cenario = SorteioTreino("disabled", 1, 0)
    /\ erro = ""
    /\ ok = FALSE
    /\ tamanhos_feitos = {}
    /\ tamanhos_vazios = {}
    /\ completos = {}
    /\ pulados = {}
    /\ escritas = <<>>
    /\ falhou = 0
    /\ interrupcoes = 0
    /\ meta_fim = MetaVazia

\* the process is gone: nothing it held in memory is left
Parado ==
    /\ pc' = "stopped"
    /\ pendentes' = <<>>
    /\ idx' = 0
    /\ concurso_n' = 0
    /\ top_por_tamanho' = <<>>
    /\ tentativa' = 0
    /\ meta' = MetaVazia
    /\ cenario' = SorteioTreino("disabled", 1, 0)
    /\ erro' = ""
    /\ ok' = FALSE
    /\ tamanhos_feitos' = {}
    /\ tamanhos_vazios' = {}
    /\ falhou' = 0

\* START/update_concursos: a row of the CSV whose contest number is above
\* the greatest one stored is inserted.  The trainer reads table concursos
\* when a run starts and at the top of the loop only, so an arrival during
\* the steps in between is the same arrival at the next of these points.
UpdateConcursos ==
    /\ pc \in {"stopped", "loop"}
    /\ \E c \in (1..MaxConcurso) \ concursos :
          /\ \A d \in concursos : d < c
          /\ concursos' = concursos \cup {c}
    /\ UNCHANGED <<checkpoint, tentativas, memoria_jogos>>
    /\ UNCHANGED <<procVars, histVars, foraTreino>>

\* run calls treinar_pendencias: lines 357-369 and the new hub
StartRun ==
    /\ pc = "stopped"
    /\ LET lista == FetchAllConcursos(concursos)
       IN  IF Len(lista) < 2
           THEN /\ pc' = "failed"
                /\ erro' = "poucos_concursos"
                /\ pendentes' = <<>>
                /\ idx' = 0
           ELSE LET pend == Pendentes(lista, checkpoint)
                IN  /\ pendentes' = pend
                    /\ erro' = ""
                    /\ IF pend = <<>>
                       THEN pc' = "returned" /\ idx' = 0
                       ELSE pc' = "loop" /\ idx' = 1
    /\ meta' = MetaVazia
    /\ cenario' \in SorteiosTreino
    /\ concurso_n' = 0
    /\ top_por_tamanho' = <<>>
    /\ tentativa' = 0
    /\ ok' = FALSE
    /\ tamanhos_feitos' = {}
    /\ tamanhos_vazios' = {}
    /\ falhou' = 0
    /\ UNCHANGED <<storeVars, completos, pulados, escritas, interrupcoes, meta_fim, foraTreino>>

\* the for loop is over: save_all and return the summary
LoopExit ==
    /\ pc = "loop"
    /\ idx > Len(pendentes)
    /\ pc' = "returned"
    /\ UNCHANGED <<pendentes, idx, concurso_n, top_por_tamanho, tentativa, meta, cenario, erro, ok>>
    /\ UNCHANGED <<storeVars, histVars, foraTreino>>

\* a skip that records the position as processed, as the backtest walk does
SkipPositionComCheckpoint ==
    /\ pc = "loop"
    /\ idx <= Len(pendentes)
    /\ SemResultado(FetchResult(concursos, pendentes[idx] + 1))
    /\ concurso_n' = pendentes[idx]
    /\ idx' = idx + 1
    /\ pulados' = pulados \cup {pendentes[idx]}
    /\ checkpoint' = pendentes[idx]
    /\ escritas' = Append(escritas, pendentes[idx])
    /\ tamanhos_feitos' = {}
    /\ tamanhos_vazios' = {}
    /\ UNCHANGED <<pc, pendentes, top_por_tamanho, tentativa, meta, cenario, erro, ok>>
    /\ UNCHANGED <<concursos, tentativas, memoria_jogos, completos, falhou, interrupcoes, meta_fim, foraTreino>>

\* `if not resultado_n1: continue`
SkipPosition ==
    /\ pc = "loop"
    /\ idx <= Len(pendentes)
    /\ SemResultado(FetchResult(concursos, pendentes[idx] + 1))
    /\ concurso_n' = pendentes[idx]
    /\ idx' = idx + 1
    /\ pulados' = pulados \cup {pendentes[idx]}
    /\ tamanhos_feitos' = {}
    /\ tamanhos_vazios' = {}
    /\ UNCHANGED <<pc, pendentes, top_por_tamanho, tentativa, meta, cenario, erro, ok>>
    /\ UNCHANGED <<storeVars, completos, escritas, falhou, interrupcoes, meta_fim, foraTreino>>

\* lines 441-455: the candidates of every size, ranked and evaluated
GeneratePosition ==
    /\ pc = "loop"
    /\ idx <= Len(pendentes)
    /\ ~SemResultado(FetchResult(concursos, pendentes[idx] + 1))
    /\ \E n \in {pendentes[idx]} :
       \E g \in {GerarTamanhos(JogoMinDezenas, cenario, meta,
                                FetchResult(concursos, n + 1),
                                [raised |-> FALSE, top |-> <<>>,
                                 feitos |-> {}, vazios |-> {}])} :
              /\ concurso_n' = n
              /\ tamanhos_feitos' = g.feitos
              /\ tamanhos_vazios' = g.vazios
              /\ IF g.raised
                 THEN /\ pc' = "failed"
                      /\ erro' = "hub"
                      /\ top_por_tamanho' = <<>>
                      /\ tentativa' = 0
                      /\ completos' = completos
                 ELSE /\ pc' = IF g.top = <<>> THEN "checkpoint" ELSE "tentativa"
                      /\ erro' = ""
                      /\ top_por_tamanho' = g.top
                      /\ tentativa' = 1
                      /\ completos' = IF g.top = <<>> /\ g.feitos = TamanhosTreino
                                      THEN completos \cup {n}
                                      ELSE completos
    /\ UNCHANGED <<pendentes, idx, meta, cenario, ok>>
    /\ UNCHANGED <<storeVars, pulados, escritas, falhou, interrupcoes, meta_fim, foraTreino>>

\* the same step with the memory insert kept for hits above the threshold only
InsertTentativaAcimaDoLimiar ==
    /\ pc = "tentativa"
    /\ tentativas' = Append(tentativas,
                            LinhaTentativa(concurso_n, top_por_tamanho[tentativa], tentativa))
    /\ pc' = IF top_por_tamanho[tentativa].acertos > SalvarMemoriaMin
             THEN "memoria" ELSE "learn"
    /\ UNCHANGED <<concursos, checkpoint, memoria_jogos>>
    /\ UNCHANGED <<pendentes, idx, concurso_n, top_por_tamanho, tentativa, meta, cenario, erro, ok>>
    /\ UNCHANGED <<histVars, foraTreino>>

\* _insert_tentativa for the current item
InsertTentativa ==
    /\ pc = "tentativa"
    /\ tentativas' = Append(tentativas,
                            LinhaTentativa(concurso_n, top_por_tamanho[tentativa], tentativa))
    /\ pc' = IF top_por_tamanho[tentativa].acertos >= SalvarMemoriaMin
             THEN "memoria" ELSE "learn"
    /\ UNCHANGED <<concursos, checkpoint, memoria_jogos>>
    /\ UNCHANGED <<pendentes, idx, concurso_n, top_por_tamanho, tentativa, meta, cenario, erro, ok>>
    /\ UNCHANGED <<histVars, foraTreino>>

\* a store write raises and the handler goes on with the next step
EscritaEngolida ==
    /\ pc \in {"tentativa", "memoria"}
    /\ interrupcoes < MaxInterrupcoes
    /\ pc' = "learn"
    /\ falhou' = concurso_n
    /\ interrupcoes' = interrupcoes + 1
    /\ UNCHANGED <<pendentes, idx, concurso_n, top_por_tamanho, tentativa, meta, cenario, erro, ok>>
    /\ UNCHANGED <<storeVars, tamanhos_feitos, tamanhos_vazios, completos, pulados, escritas, meta_fim, foraTreino>>

\* cur.execute or conn.commit of _insert_tentativa / _insert_memoria_forte
\* raises: nothing catches it, treinar_pendencias and run end with it
EscritaFalha ==
    /\ pc \in {"tentativa", "memoria"}
    /\ interrupcoes < MaxInterrupcoes
    /\ pc' = "failed"
    /\ erro' = "db"
    /\ falhou' = concurso_n
    /\ interrupcoes' = interrupcoes + 1
    /\ UNCHANGED <<pendentes, idx, concurso_n, top_por_tamanho, tentativa, meta, cenario, ok>>
    /\ UNCHANGED <<storeVars, tamanhos_feitos, tamanhos_vazios, completos, pulados, escritas, meta_fim, foraTreino>>

\* _insert_memoria_forte for the current item (acertos >= SALVAR_MEMORIA_MIN)
InsertMemoria ==
    /\ pc = "memoria"
    /\ LET r == InsertMemoriaForte(memoria_jogos,
                                   LinhaMemoria(concurso_n, top_por_tamanho[tentativa]))
       IN  /\ memoria_jogos' = r.tabela
           /\ ok' = r.inserted
    /\ pc' = "learn"
    /\ UNCHANGED <<concursos, checkpoint, tentativas>>
    /\ UNCHANGED <<pendentes, idx, concurso_n, top_por_tamanho, tentativa, meta, cenario, erro>>
    /\ UNCHANGED <<histVars, foraTreino>>

\* hub.learn for the current item, then tentativa += 1
Learn ==
    /\ pc = "learn"
    /\ meta' = HubLearn(meta, top_por_tamanho[tentativa].brain_id,
                        top_por_tamanho[tentativa].acertos)
    /\ tentativa' = tentativa + 1
    /\ pc' = IF tentativa + 1 > Len(top_por_tamanho) THEN "checkpoint" ELSE "tentativa"
    /\ completos' = IF tentativa + 1 > Len(top_por_tamanho)
                       /\ tamanhos_feitos = TamanhosTreino /\ falhou = 0
                    THEN completos \cup {concurso_n}
                    ELSE completos
    /\ UNCHANGED <<pendentes, idx, concurso_n, top_por_tamanho, cenario, erro, ok>>
    /\ UNCHANGED <<storeVars, tamanhos_feitos, tamanhos_vazios, pulados, escritas, falhou, interrupcoes, meta_fim, foraTreino>>

\* a checkpoint written as soon as the candidates are there
SetCheckpointCedo ==
    /\ pc = "tentativa"
    /\ tentativa = 1
    /\ checkpoint # concurso_n
    /\ checkpoint' = concurso_n
    /\ escritas' = Append(escritas, concurso_n)
    /\ UNCHANGED <<concursos, tentativas, memoria_jogos>>
    /\ UNCHANGED <<procVars, meta_fim, foraTreino>>
    /\ UNCHANGED <<tamanhos_feitos, tamanhos_vazios, completos, pulados, falhou, interrupcoes>>

\* _set_checkpoint(conn, concurso_n), line 512, and on to the next position
SetCheckpoint ==
    /\ pc = "checkpoint"
    /\ checkpoint' = concurso_n
    /\ escritas' = Append(escritas, concurso_n)
    /\ idx' = idx + 1
    /\ pc' = "loop"
    /\ UNCHANGED <<concursos, tentativas, memoria_jogos>>
    /\ UNCHANGED <<pendentes, concurso_n, top_por_tamanho, tentativa, meta, cenario, erro, ok>>
    /\ UNCHANGED <<tamanhos_feitos, tamanhos_vazios, completos, pulados, falhou, interrupcoes, meta_fim, foraTreino>>

\* the process is killed (crash, power loss, cancelled job)
Kill ==
    /\ pc \notin {"stopped", "returned", "failed"}
    /\ interrupcoes < MaxInterrupcoes
    /\ interrupcoes' = interrupcoes + 1
    /\ meta_fim' = meta
    /\ Parado
    /\ UNCHANGED <<storeVars, completos, pulados, escritas, foraTreino>>

\* run is over: the summary was returned or the exception left run
Exit ==
    /\ pc \in {"returned", "failed"}
    /\ meta_fim' = meta
    /\ Parado
    /\ UNCHANGED <<storeVars, completos, pulados, escritas, interrupcoes, foraTreino>>

(***************************************************************************)
(* Properties of the replay loop                                           *)
(***************************************************************************)
\* item i of the position has its row in tentativas and, with enough hits,
\* its key in memoria_jogos
ItemPersistido(i) ==
    LET it == top_por_tamanho[i]
    IN  /\ \E k \in DOMAIN tentativas :
              tentativas[k] = LinhaTentativa(concurso_n, it, i)
        /\ it.acertos >= SalvarMemoriaMin =>
              \E k \in DOMAIN memoria_jogos :
                  ChaveMemoria(memoria_jogos[k]) = ChaveMemoria(LinhaMemoria(concurso_n, it))

\* C1: the checkpoint is written for position p only when every size of
\* 7..15 was generated and evaluated for p and every item of p went
\* through its Attempt write, its StrongMemory write and its learn call.
C1_CheckpointAfterAllWork ==
    [][checkpoint' # checkpoint =>
          /\ pc = "checkpoint"
          /\ checkpoint' = concurso_n
          /\ tamanhos_feitos = TamanhosTreino
          /\ tentativa = Len(top_por_tamanho) + 1
          /\ \A i \in DOMAIN top_por_tamanho : ItemPersistido(i)]_vars

\* the checkpoint of a position stands and its rows of all nine sizes are
\* in the store, some of them in memoria_jogos
C1_Witness ==
    /\ pc = "loop"
    /\ checkpoint = concurso_n
    /\ checkpoint > 0
    /\ \A t \in TamanhosTreino :
          \E k \in DOMAIN tentativas :
              tentativas[k].concurso_n = checkpoint /\ tentativas[k].tipo_jogo = t
    /\ \E k \in DOMAIN memoria_jogos : memoria_jogos[k].concurso_n = checkpoint

\* C2: the values written to the trainer checkpoint are strictly
\* increasing, and the stored checkpoint is the last of them.
C2_CheckpointIncreases ==
    /\ \A i, j \in DOMAIN escritas : i < j => escritas[i] < escritas[j]
    /\ checkpoint = IF escritas = <<>> THEN 0 ELSE escritas[Len(escritas)]

\* three writes, the last of them in a run that started from a checkpoint
\* an earlier run had left
C2_Witness ==
    /\ Len(escritas) >= 3
    /\ pendentes # <<>>
    /\ pendentes[1] > escritas[1]

\* C3: no step of a run, a kill or a re-run removes or changes a row of
\* tentativas, and memoria_jogos never holds two rows with the same
\* (concurso_n, concurso_n1, tipo_jogo, dezenas).
C3_CrashRerunSafe ==
    /\ [](\A i, j \in DOMAIN memoria_jogos :
            i # j => ChaveMemoria(memoria_jogos[i]) # ChaveMemoria(memoria_jogos[j]))
    /\ [][/\ Len(tentativas') >= Len(tentativas)
          /\ SubSeq(tentativas', 1, Len(tentativas)) = tentativas]_vars

\* after an interruption the re-run wrote an item a second time: its row is
\* twice in tentativas and its memoria_jogos insert was ignored
C3_Witness ==
    /\ interrupcoes > 0
    /\ pc = "learn"
    /\ top_por_tamanho[tentativa].acertos >= SalvarMemoriaMin
    /\ ~ok
    /\ \E i, j \in DOMAIN tentativas :
          /\ i < j
          /\ tentativas[i] = tentativas[j]
          /\ tentativas[j] = LinhaTentativa(concurso_n, top_por_tamanho[tentativa], tentativa)

\* C4: every position at or below the checkpoint was fully processed or
\* is not a position the loop skipped for a missing outcome.
C4_SkippedNotPassed ==
    \A p \in pulados : p <= checkpoint => p \in completos

\* C5: when a write to tentativas or memoria_jogos fails for position p,
\* the run ends with that error and the checkpoint stays below p.
C5_WriteFailureStops ==
    falhou # 0 => /\ pc = "failed"
                  /\ erro = "db"
                  /\ checkpoint < falhou

\* the write that failed was not the first of its position
C5_Witness ==
    /\ falhou # 0
    /\ pc = "failed"
    /\ \E k \in DOMAIN tentativas : tentativas[k].concurso_n = falhou
    /\ \E k \in DOMAIN memoria_jogos : memoria_jogos[k].concurso_n = falhou

\* C6: when the hub has no candidate for a size, the position ends in an
\* error and is not checkpointed.
C6_EmptyRoundIsFatal ==
    tamanhos_vazios # {} => /\ pc = "failed"
                            /\ checkpoint # concurso_n

\* the pending positions of the run whose next-position outcome is stored
ComResultado == {p \in Range(pendentes) : ~SemResultado(FetchResult(concursos, p + 1))}

\* C12: a position skipped for a missing outcome has no row in tentativas
\* and none in memoria_jogos, the step that skips it leaves the store, the
\* checkpoint and hub.meta as they were, and when a run that had pending
\* positions returns, the checkpoint is the greatest pending position whose
\* next outcome is stored (stored 100, 101, 102: the checkpoint ends at 101).
C12_SkippedLeaveNoTrace ==
    /\ [](\A p \in pulados :
            /\ \A k \in DOMAIN tentativas : tentativas[k].concurso_n # p
            /\ \A k \in DOMAIN memoria_jogos : memoria_jogos[k].concurso_n # p)
    /\ [][pulados' # pulados =>
            /\ tentativas' = tentativas
            /\ memoria_jogos' = memoria_jogos
            /\ meta' = meta
            /\ checkpoint' = checkpoint]_vars
    /\ []((pc = "returned" /\ ComResultado # {}) => checkpoint = MaxOf(ComResultado))

\* a run returned after it processed a position and skipped the last pending
\* one: the checkpoint is the processed position, below the skipped one
C12_Witness ==
    /\ pc = "returned"
    /\ Len(pendentes) >= 2
    /\ pendentes[Len(pendentes)] \in pulados
    /\ checkpoint \in ComResultado
    /\ checkpoint < pendentes[Len(pendentes)]
    /\ \E k \in DOMAIN tentativas : tentativas[k].concurso_n = checkpoint

\* C18: every candidate evaluated for a position gets exactly one row
\* appended to tentativas, its acertos being the size of the intersection
\* of the candidate with the outcome of the next position, and
\* _insert_memoria_forte is called for it if and only if its acertos is at
\* least SALVAR_MEMORIA_MIN.
C18_AttemptPerCandidate ==
    /\ [](pc = "checkpoint" =>
            /\ Len(tentativas) >= Len(top_por_tamanho)
            /\ \A i \in DOMAIN top_por_tamanho :
                  /\ tentativas[Len(tentativas) - Len(top_por_tamanho) + i]
                        = LinhaTentativa(concurso_n, top_por_tamanho[i], i)
                  /\ top_por_tamanho[i].acertos
                        = Cardinality(top_por_tamanho[i].jogo \cap Resultado(concurso_n + 1))
                  /\ top_por_tamanho[i].acertos >= SalvarMemoriaMin =>
                        \E k \in DOMAIN memoria_jogos :
                            ChaveMemoria(memoria_jogos[k])
                              = ChaveMemoria(LinhaMemoria(concurso_n, top_por_tamanho[i])))
    /\ [][tentativas' # tentativas =>
            /\ pc = "tentativa"
            /\ tentativas' = Append(tentativas,
                                    LinhaTentativa(concurso_n, top_por_tamanho[tentativa],
                                                   tentativa))
            /\ pc' = "memoria" <=> top_por_tamanho[tentativa].acertos >= SalvarMemoriaMin
            /\ pc' = "learn" <=> top_por_tamanho[tentativa].acertos < SalvarMemoriaMin]_vars
    /\ [][(pc = "memoria" /\ pc' = "learn") =>
            memoria_jogos' = InsertMemoriaForte(memoria_jogos,
                                LinhaMemoria(concurso_n, top_por_tamanho[tentativa])).tabela]_vars
    /\ [][memoria_jogos' # memoria_jogos =>
            /\ pc = "memoria"
            /\ top_por_tamanho[tentativa].acertos >= SalvarMemoriaMin]_vars

\* a position whose candidates were all persisted, one of them with hits at
\* the threshold and a row in memoria_jogos, while tentativas also holds a
\* candidate below the threshold whose position has no row there
C18_Witness ==
    /\ pc = "checkpoint"
    /\ \E i \in DOMAIN top_por_tamanho :
          /\ top_por_tamanho[i].acertos = SalvarMemoriaMin
          /\ \E k \in DOMAIN memoria_jogos :
                ChaveMemoria(memoria_jogos[k])
                  = ChaveMemoria(LinhaMemoria(concurso_n, top_por_tamanho[i]))
    /\ \E t \in DOMAIN tentativas :
          /\ tentativas[t].acertos < SalvarMemoriaMin
          /\ \A k \in DOMAIN memoria_jogos :
                memoria_jogos[k].concurso_n # tentativas[t].concurso_n


\* DIA_DE_SORTE_RULES.resultado_dezenas
ResultadoDezenas == 7

\* C28: every hit count of the replay loop is within 0..7, so for every
\* brain the counters of hits >= 14 and >= 15 stay at 0, the points are at
\* most 7 per use, and the meta-weight is within [1.0, 1.07] without
\* either clamp bound of _meta_weight coming into play.
C28_HitsWithinOutcome ==
    /\ \A i \in DOMAIN top_por_tamanho : top_por_tamanho[i].acertos \in 0..ResultadoDezenas
    /\ \A b \in BrainIds :
          /\ meta[b].q14 = 0
          /\ meta[b].q15 = 0
          /\ meta[b].pontos <= ResultadoDezenas * meta[b].usos
          /\ MetaWeight(meta, b) >= 10000
          /\ MetaWeight(meta, b) <= 10700
          /\ MetaWeight(meta, b) = MetaWeightSemLimite(meta, b)

\* a brain was credited more than once, one of the credits for a game of
\* fifteen numbers that hit every number of the outcome
C28_Witness ==
    /\ \E b \in BrainIds : meta[b].usos >= 2 /\ MetaWeight(meta, b) > 10000
    /\ \E i \in DOMAIN top_por_tamanho :
          /\ i < tentativa
          /\ top_por_tamanho[i].acertos = ResultadoDezenas
          /\ Cardinality(top_por_tamanho[i].jogo) = JogoMaxDezenas
\* C13: when a run starts, the hub's meta of every brain (usos, pontos, q14,
\* q15), and hence its meta-weight, is what it was when the previous run
\* ended.
C13_MetaSurvivesRestart ==
    [][(pc = "stopped" /\ pc' # "stopped") => meta' = meta_fim]_vars

(***************************************************************************)
(* backtest_engine: the circular block walk of main                        *)
(***************************************************************************)
\* --steps, --block-size, and whether --minutes / --hours set a time limit
BacktestArgs == [max_steps : 0..MaxPassos, block_size : 1..MaxBloco, tempo : BOOLEAN]

SemArgs == [max_steps |-> 1, block_size |-> 1, tempo |-> FALSE]

\* `if ck < concursos[0] or ck > ultimo_treinavel: ck = 0`
CkValido(ck, lista) ==
    IF ck < lista[1] \/ ck > lista[Len(lista) - 1] THEN 0 ELSE ck

\* trainable = [c for c in concursos if c <= ultimo_treinavel]
Trainable(lista) == SubSeq(lista, 1, Len(lista) - 1)

\* pos = trainable.index(ck) + 1, or 0 when ck is 0 or is not in trainable
PosInicial(ck, tr) ==
    IF ck = 0 THEN 0
    ELSE IF \E k \in DOMAIN tr : tr[k] = ck
    THEN CHOOSE k \in DOMAIN tr : tr[k] = ck
    ELSE 0

\* the block of the cycle: `if pos >= len(trainable): pos = 0`
RECURSIVE SelecionarBloco(_, _, _, _)
SelecionarBloco(tr, p, k, acc) ==
    IF k = 0 THEN [block |-> acc, pos |-> p]
    ELSE LET q == IF p >= Len(tr) THEN 0 ELSE p
         IN  SelecionarBloco(tr, q + 1, k - 1, Append(acc, tr[q + 1]))

\* run_one_concurso: returns at once when the outcome of n + 1 is missing,
\* otherwise generates, evaluates, persists and learns for position n
RunOneConcurso(cs, n) ==
    [concurso_n |-> n, feito |-> ~SemResultado(FetchResult(cs, n + 1))]

\* `max_steps > 0 and steps_done >= max_steps`
StepsEsgotados == bt_args.max_steps > 0 /\ steps_done >= bt_args.max_steps

\* the positions a run with no step budget is followed for
DentroDoLimite == steps_done < MaxRodadas

InitBtVars ==
    /\ checkpoint_backtest = 0
    /\ bt_pc = "stopped"
    /\ bt_args = SemArgs
    /\ trainable = <<>>
    /\ pos = 0
    /\ block = <<>>
    /\ bt_i = 0
    /\ steps_done = 0
    /\ bt_escritas = <<>>
    /\ bt_rodados = <<>>
    /\ bt_execucoes = 0

\* main up to the while loop: lines 541-586
BtStart ==
    /\ bt_pc = "stopped"
    /\ bt_execucoes < MaxExecucoes
    /\ bt_execucoes' = bt_execucoes + 1
    /\ \E a \in BacktestArgs : bt_args' = a
    /\ LET lista == FetchAllConcursos(concursos)
       IN  IF Len(lista) < 2
           THEN /\ bt_pc' = "failed"
                /\ trainable' = <<>>
                /\ pos' = 0
           ELSE /\ bt_pc' = "ciclo"
                /\ trainable' = Trainable(lista)
                /\ pos' = PosInicial(CkValido(checkpoint_backtest, lista), Trainable(lista))
    /\ block' = <<>>
    /\ bt_i' = 0
    /\ steps_done' = 0
    /\ UNCHANGED <<checkpoint_backtest, bt_escritas, bt_rodados, concursos>>
    /\ UNCHANGED foraBt

\* the top of `while True` with no stop condition met: the next block
BtBlock ==
    /\ bt_pc = "ciclo"
    /\ ~StepsEsgotados
    /\ DentroDoLimite
    /\ LET b == SelecionarBloco(trainable, pos, Max2(1, bt_args.block_size), <<>>)
       IN  /\ block' = b.block
           /\ pos' = b.pos
    /\ bt_i' = 1
    /\ bt_pc' = "bloco"
    /\ UNCHANGED <<checkpoint_backtest, bt_args, trainable, steps_done,
                   bt_escritas, bt_rodados, bt_execucoes, concursos>>
    /\ UNCHANGED foraBt

\* one position of the block starts: no stop condition holds at the top of
\* the for loop, run_one_concurso is called
BtItem ==
    /\ bt_pc = "bloco"
    /\ bt_i <= Len(block)
    /\ ~StepsEsgotados
    /\ DentroDoLimite
    /\ bt_rodados' = Append(bt_rodados, RunOneConcurso(concursos, block[bt_i]))
    /\ bt_pc' = "item"
    /\ UNCHANGED <<checkpoint_backtest, bt_args, trainable, pos, block, bt_i, steps_done,
                   bt_escritas, bt_execucoes, concursos>>
    /\ UNCHANGED foraBt

\* steps_done += 1 and set_backtest_checkpoint for the position just run
BtCheckpoint ==
    /\ bt_pc = "item"
    /\ steps_done' = steps_done + 1
    /\ checkpoint_backtest' = block[bt_i]
    /\ bt_escritas' = Append(bt_escritas, block[bt_i])
    /\ bt_i' = bt_i + 1
    /\ bt_pc' = "bloco"
    /\ UNCHANGED <<bt_args, trainable, pos, block, bt_rodados, bt_execucoes, concursos>>
    /\ UNCHANGED foraBt

\* a for loop that also looks at the budgets while a position is running
BtBlockEndNoMeio ==
    /\ bt_pc \in {"bloco", "item"}
    /\ bt_i > Len(block) \/ StepsEsgotados \/ bt_args.tempo \/ ~DentroDoLimite
    /\ bt_pc' = "ciclo"
    /\ UNCHANGED <<checkpoint_backtest, bt_args, trainable, pos, block, bt_i,
                   steps_done, bt_escritas, bt_rodados, bt_execucoes, concursos>>
    /\ UNCHANGED foraBt

\* the for loop over the block ends (or breaks): save_all, back to the top
BtBlockEnd ==
    /\ bt_pc = "bloco"
    /\ bt_i > Len(block) \/ StepsEsgotados \/ bt_args.tempo
    /\ bt_pc' = "ciclo"
    /\ UNCHANGED <<checkpoint_backtest, bt_args, trainable, pos, block, bt_i,
                   steps_done, bt_escritas, bt_rodados, bt_execucoes, concursos>>
    /\ UNCHANGED foraBt

\* a stop condition holds at the top of `while True`: the step budget is
\* used up, or the time limit has passed
BtStop ==
    /\ bt_pc = "ciclo"
    /\ StepsEsgotados \/ bt_args.tempo
    /\ bt_pc' = "finished"
    /\ UNCHANGED <<checkpoint_backtest, bt_args, trainable, pos, block, bt_i,
                   steps_done, bt_escritas, bt_rodados, bt_execucoes, concursos>>
    /\ UNCHANGED foraBt

\* main returns (or its exception leaves it): the process is gone
BtExit ==
    /\ bt_pc \in {"finished", "failed"}
    /\ bt_pc' = "stopped"
    /\ bt_args' = SemArgs
    /\ trainable' = <<>>
    /\ pos' = 0
    /\ block' = <<>>
    /\ bt_i' = 0
    /\ steps_done' = 0
    /\ UNCHANGED <<checkpoint_backtest, bt_escritas, bt_rodados, bt_execucoes, concursos>>
    /\ UNCHANGED foraBt

(***************************************************************************)
(* Properties of the backtest walk                                         *)
(***************************************************************************)
\* C11: the values written to the backtest checkpoint never decrease, from
\* one processed position to the next and from one run to the next.
C11_BacktestCheckpointIncreases ==
    \A i, j \in DOMAIN bt_escritas : i < j => bt_escritas[i] <= bt_escritas[j]

CounterVazio == [d \in UNIVERSO |-> 0]

\* the state dict of a brain that was never saved or loaded
EstadoVazio == [salvo |-> FALSE]

RECURSIVE CounterDe(_)
CounterDe(buffer) ==
    IF buffer = <<>> THEN CounterVazio
    ELSE LET c == CounterDe(SubSeq(buffer, 1, Len(buffer) - 1))
         IN  [d \in UNIVERSO |-> IF d \in buffer[Len(buffer)] THEN c[d] + 1 ELSE c[d]]

\* buff[-janela:]
Ultimos(buff, janela) ==
    IF Len(buff) <= janela THEN buff ELSE SubSeq(buff, Len(buff) - janela + 1, Len(buff))

\* the rows of a list that are not empty: `[... for r in buff if r]`
RECURSIVE NaoVazios(_)
NaoVazios(buff) ==
    IF buff = <<>> THEN <<>>
    ELSE IF buff[1] = {} THEN NaoVazios(Tail(buff))
    ELSE <<buff[1]>> \o NaoVazios(Tail(buff))

\* StatFreqRecenteBrain._rebuild_from_state
FreqRebuildFromState(inst) ==
    LET janela == IF inst.state.salvo THEN inst.state.janela ELSE inst.janela
        buff   == IF inst.state.salvo THEN NaoVazios(inst.state.buffer) ELSE <<>>
        j      == Max2(JanelaMinima, janela)
    IN  [janela |-> j,
         buffer |-> Ultimos(buff, j),
         freq   |-> CounterDe(Ultimos(buff, j)),
         state  |-> inst.state]

\* BaseBrain.load_state: json.loads of the stored estado_json, {} without a row
LoadState(b) == cerebro_estado[b]

\* StatFreqRecenteBrain.__init__ with janela, reading the store
FreqNovo(janela) ==
    FreqRebuildFromState([janela |-> janela, buffer |-> <<>>, freq |-> CounterVazio,
                          state |-> LoadState(FREQ)])

\* StatFreqRecenteBrain.load_state on a live instance: only self.state changes
FreqLoadState(inst) == [inst EXCEPT !.state = LoadState(FREQ)]

\* StatFreqRecenteBrain.save_state: self.state = {janela, buffer}
FreqSaveState(inst) ==
    [inst EXCEPT !.state = [salvo |-> TRUE, janela |-> inst.janela, buffer |-> inst.buffer]]


\* StatFreqRecenteBrain.learn: a full buffer gives up its oldest outcome
FreqLearn(inst, resultado_n1) ==
    IF resultado_n1 = {} THEN inst
    ELSE LET cheio == Len(inst.buffer) = inst.janela
             f1    == IF cheio
                      THEN [d \in UNIVERSO |->
                              IF d \in inst.buffer[1] THEN Max2(0, inst.freq[d] - 1)
                              ELSE inst.freq[d]]
                      ELSE inst.freq
             b1    == IF cheio THEN Tail(inst.buffer) ELSE inst.buffer
         IN  [inst EXCEPT !.buffer = Append(b1, resultado_n1),
                          !.freq = [d \in UNIVERSO |->
                                      IF d \in resultado_n1 THEN f1[d] + 1 ELSE f1[d]]]

RECURSIVE SomaFreq(_, _)
SomaFreq(freq, jogo) ==
    IF jogo = {} THEN 0
    ELSE LET d == MinOf(jogo) IN freq[d] + SomaFreq(freq, jogo \ {d})

\* StatFreqRecenteBrain.score_game, in 1e-4
FreqScoreGame(inst, jogo) ==
    IF jogo = {} THEN 0
    ELSE IF inst.freq = CounterVazio THEN 1000
    ELSE LET maxf == MaxOf({inst.freq[d] : d \in UNIVERSO})
         IN  (SomaFreq(inst.freq, jogo) * 10000) \div (maxf * Cardinality(jogo))

\* HeuristicStepSequencesBrain: the stats of pattern P1-s15; avg_score is
\* kept as the sum of the points and their number
StatsVazio == [presente |-> FALSE, uses |-> 0, top_hits |-> 0, soma |-> 0,
               best_hits |-> 0, score_count |-> 0]

\* HeuristicStepSequencesBrain.__init__: load_state, empty _recent_meta
StepsNovo ==
    LET e == LoadState(STEPS)
    IN  [state |-> IF e.salvo THEN e ELSE [salvo |-> FALSE, pattern_stats |-> StatsVazio],
         recent_meta |-> {}]

\* BaseBrain.load_state on a live instance: self.state is replaced
StepsLoadState(inst) ==
    LET e == LoadState(STEPS)
    IN  [inst EXCEPT !.state = IF e.salvo THEN e ELSE EstadoVazio]

\* the pattern_stats a live instance reads: state.get("pattern_stats", {})
PatternStats(inst) ==
    IF "pattern_stats" \in DOMAIN inst.state THEN inst.state.pattern_stats ELSE StatsVazio

\* _build_candidate and _track_meta for one game of generate
StepsTrack(inst, jogo) ==
    [state |-> [salvo |-> inst.state.salvo,
                pattern_stats |-> [PatternStats(inst) EXCEPT !.presente = TRUE,
                                                             !.uses = @ + 1]],
     recent_meta |-> inst.recent_meta \cup {jogo}]

\* HeuristicStepSequencesBrain.score_game, in 1e-4
StepsScoreGame(inst, jogo) ==
    IF jogo = {} THEN 0
    ELSE IF jogo \notin inst.recent_meta THEN 4000
    ELSE LET ps    == PatternStats(inst)
             avg   == IF ps.score_count = 0 THEN 0
                      ELSE (ps.soma * 10000) \div (15 * ps.score_count)
             base  == 3500 + Min2(6000, avg)
             bonus == Min2(2000, 200 * ps.top_hits + 100 * ps.best_hits)
         IN  Min2(10000, base + bonus)

\* HeuristicStepSequencesBrain.learn
StepsLearn(inst, jogo, pontos) ==
    IF jogo \notin inst.recent_meta THEN inst
    ELSE [state |-> [salvo |-> inst.state.salvo,
                     pattern_stats |->
                        [PatternStats(inst) EXCEPT
                            !.presente = TRUE,
                            !.top_hits = @ + (IF pontos >= 14 THEN 1 ELSE 0),
                            !.best_hits = @ + (IF pontos >= 13 THEN 1 ELSE 0),
                            !.soma = @ + pontos,
                            !.score_count = @ + 1]],
          recent_meta |-> inst.recent_meta]

\* BaseBrain.save_state of the step brain: json.dumps(self.state)
StepsSaveState(inst) == [inst EXCEPT !.state.salvo = TRUE]

\* what generate reads of the learned state: the ranking and the weights of
\* StatFreqRecenteBrain come from freq, _pick_pattern weighs by pattern_stats
GenerateLe(f, s) == [freq |-> f.freq, pattern_stats |-> PatternStats(s)]

\* the games the learn and score_game calls are made with
JogosSonda == {BuildCandidate(1, TamanhoPadrao), BuildCandidate(2, TamanhoPadrao)}

\* the hit counts the learn calls are made with
PontosLearn == {0, 14, 15}

\* the outcome of the position after the one being replayed
ResultadoLearn(p) == Resultado(p + 1)

\* no hub.learn call was made for the position yet
SemChamada == [brain_id |-> "", pontos |-> 0, jogo |-> {}]

\* DIA_DE_SORTE_RULES.performance_tiers
PerformanceTiers == {4, 5, 6, 7}

\* no row of cerebro_performance for a brain and a position
SemLinha == [jogos_gerados |-> 0, soma |-> 0, qtd |-> [t \in PerformanceTiers |-> 0]]

\* BaseBrain._perf_update(concurso, pontos, jogos_gerados=1); media_pontos is
\* kept as the sum of the points
PerfUpdate(tabela, b, concurso, pontos) ==
    [tabela EXCEPT ![b][concurso] =
        [jogos_gerados |-> @.jogos_gerados + 1,
         soma |-> @.soma + pontos,
         qtd |-> [t \in PerformanceTiers |->
                    @.qtd[t] + (IF pontos >= t THEN 1 ELSE 0)]]]

InitBrainVars ==
    /\ cerebro_estado = [b \in BrainIds |-> EstadoVazio]
    /\ cerebro_performance = [b \in BrainIds |-> [c \in 1..MaxLearnPos |-> SemLinha]]
    /\ fr = [janela |-> JanelaMinima, buffer |-> <<>>, freq |-> CounterVazio,
             state |-> EstadoVazio]
    /\ st = [state |-> [salvo |-> FALSE, pattern_stats |-> StatsVazio], recent_meta |-> {}]
    /\ original = [fr |-> fr, st |-> st]
    /\ br_pc = "vivo"
    /\ learn_pos = 1
    /\ learn_calls = 0
    /\ ultima = SemChamada
    /\ repeticoes = 0
    /\ salvamentos = 0
    /\ gerados = 0

\* the step brain builds one candidate inside generate
BrainGenerate ==
    /\ gerados < MaxGerados
    /\ \E d \in StepsStarts : st' = StepsTrack(st, BuildCandidate(d, TamanhoPadrao))
    /\ gerados' = gerados + 1
    /\ br_pc' = "vivo"
    /\ UNCHANGED <<fr, cerebro_estado, cerebro_performance, original, learn_pos, learn_calls, ultima,
                   repeticoes, salvamentos, meta>>
    /\ UNCHANGED foraBrain

\* BrainHub.learn(concurso_n, jogo, resultado_n1, pontos, context, brain_id):
\* the hub's meta of brain_id, then learn of the brain with that id
LearnDe(c) ==
    /\ meta' = HubLearn(meta, c.brain_id, c.pontos)
    /\ IF c.brain_id = FREQ
       THEN fr' = FreqLearn(fr, ResultadoLearn(learn_pos)) /\ st' = st
       ELSE st' = StepsLearn(st, c.jogo, c.pontos) /\ fr' = fr
    /\ cerebro_performance' =
          IF c.brain_id = FREQ /\ ResultadoLearn(learn_pos) = {}
          THEN cerebro_performance
          ELSE PerfUpdate(cerebro_performance, c.brain_id, learn_pos, c.pontos)
    /\ ultima' = c
    /\ br_pc' = "vivo"

\* a hub.learn call with arguments of its own, at most max in a behaviour
HubLearnStep(max) ==
    /\ learn_calls < max
    /\ learn_calls' = learn_calls + 1
    /\ \E b \in BrainIds, pontos \in PontosLearn, jogo \in JogosSonda :
          LearnDe([brain_id |-> b, pontos |-> pontos,
                   jogo |-> IF b = FREQ THEN BuildCandidate(1, TamanhoPadrao) ELSE jogo])
    /\ UNCHANGED <<cerebro_estado, original, learn_pos, repeticoes, salvamentos, gerados>>
    /\ UNCHANGED foraBrain

HubLearnCall == HubLearnStep(MaxLearn)

\* hub.learn is called again with the arguments of the call before
HubLearnRepeat ==
    /\ ultima # SemChamada
    /\ repeticoes < MaxRepeticoes
    /\ repeticoes' = repeticoes + 1
    /\ LearnDe(ultima)
    /\ UNCHANGED <<cerebro_estado, original, learn_pos, learn_calls, salvamentos, gerados>>
    /\ UNCHANGED foraBrain

\* the replay moves on to the next position
ProximaPosicao ==
    /\ learn_pos < MaxLearnPos
    /\ learn_pos' = learn_pos + 1
    /\ ultima' = SemChamada
    /\ br_pc' = "vivo"
    /\ UNCHANGED <<fr, st, cerebro_estado, cerebro_performance, original, learn_calls,
                   repeticoes, salvamentos, gerados, meta>>
    /\ UNCHANGED foraBrain

\* BrainHub.save_all: save_state of every registered brain
SaveAll ==
    /\ salvamentos < MaxSalvamentos
    /\ salvamentos' = salvamentos + 1
    /\ fr' = FreqSaveState(fr)
    /\ st' = StepsSaveState(st)
    /\ cerebro_estado' = [b \in BrainIds |->
                            IF b = FREQ THEN FreqSaveState(fr).state
                            ELSE StepsSaveState(st).state]
    /\ br_pc' = "salvo"
    /\ UNCHANGED <<cerebro_performance, original, learn_pos, learn_calls, ultima,
                   repeticoes, gerados, meta>>
    /\ UNCHANGED foraBrain

\* BrainHub.load_all on the live instances: load_state of every brain
LoadAll ==
    /\ br_pc = "salvo"
    /\ original' = [fr |-> fr, st |-> st]
    /\ fr' = FreqLoadState(fr)
    /\ st' = StepsLoadState(st)
    /\ br_pc' = "recarregado"
    /\ UNCHANGED <<cerebro_estado, cerebro_performance, learn_pos, learn_calls, ultima,
                   repeticoes, gerados, salvamentos, meta>>
    /\ UNCHANGED foraBrain

\* a new process (or the next call of treinar_pendencias): the brains are
\* constructed again, each __init__ loading its state, then hub.load_all
NovaInstancia ==
    /\ br_pc \in {"salvo", "vivo"}
    /\ original' = [fr |-> fr, st |-> st]
    /\ fr' = FreqNovo(JanelaMinima)
    /\ st' = StepsNovo
    /\ br_pc' = IF br_pc = "salvo" THEN "recarregado" ELSE "reiniciado"
    /\ ultima' = SemChamada
    /\ meta' = MetaVazia
    /\ UNCHANGED <<cerebro_estado, cerebro_performance, learn_pos, learn_calls,
                   repeticoes, gerados, salvamentos>>
    /\ UNCHANGED foraBrain

(***************************************************************************)
(* Properties of learn                                                     *)
(***************************************************************************)
\* C15: after any sequence of hub.learn calls the meta-weight of every
\* brain is within [0.85, 1.25], and it is exactly 1.0 for a brain that no
\* learn call was made for.
C15_MetaWeightBounded ==
    \A b \in BrainIds :
        /\ MetaWeight(meta, b) >= 8500
        /\ MetaWeight(meta, b) <= 12500
        /\ meta[b].usos = 0 => MetaWeight(meta, b) = 10000

\* one brain learned hits of 14 and 15 and its weight is held at 1.25, the
\* other was never credited
C15_Witness ==
    /\ learn_calls >= 2
    /\ \E b \in BrainIds :
          /\ meta[b].q14 > meta[b].q15
          /\ meta[b].q15 > 0
          /\ MetaWeight(meta, b) = 12500
          /\ MetaWeightSemLimite(meta, b) > 12500
    /\ \E b \in BrainIds : meta[b].usos = 0

\* C17: no step removes or decreases what the hub or a brain learned from
\* an earlier learn call: the hub's counters never go down, the outcomes
\* the frequency brain holds stay and the count of no number goes down,
\* and the pattern statistics of the step brain never go down.
C17_LearnNeverDestroys ==
    [][/\ \A b \in BrainIds :
            /\ meta'[b].usos >= meta[b].usos
            /\ meta'[b].pontos >= meta[b].pontos
            /\ meta'[b].q14 >= meta[b].q14
            /\ meta'[b].q15 >= meta[b].q15
       /\ Len(fr'.buffer) >= Len(fr.buffer)
       /\ SubSeq(fr'.buffer, 1, Len(fr.buffer)) = fr.buffer
       /\ \A d \in UNIVERSO : fr'.freq[d] >= fr.freq[d]
       /\ PatternStats(st').top_hits >= PatternStats(st).top_hits
       /\ PatternStats(st').best_hits >= PatternStats(st).best_hits
       /\ PatternStats(st').score_count >= PatternStats(st).score_count
       /\ PatternStats(st').soma >= PatternStats(st).soma
       /\ st.recent_meta \subseteq st'.recent_meta
       /\ \A b \in BrainIds, c \in 1..MaxLearnPos :
            /\ cerebro_performance'[b][c].jogos_gerados >= cerebro_performance[b][c].jogos_gerados
            /\ cerebro_performance'[b][c].soma >= cerebro_performance[b][c].soma]_vars

\* C14: right after save_state followed by load_state, on the same
\* instances or on freshly constructed ones, every brain gives each game the
\* score_game value the instance before the load gave it, and generate reads
\* the same learned state, so it gives the same games for the same random
\* draws.
C14_StateRoundTrip ==
    br_pc = "recarregado" =>
        /\ \A jogo \in JogosSonda \cup {{}} :
              /\ FreqScoreGame(fr, jogo) = FreqScoreGame(original.fr, jogo)
              /\ StepsScoreGame(st, jogo) = StepsScoreGame(original.st, jogo)
        /\ GenerateLe(fr, st) = GenerateLe(original.fr, original.st)

(***************************************************************************)
(* trainer_v2._build_context: the snapshot every brain and the hub read    *)
(***************************************************************************)
\* SELECT ... WHERE concurso <= ? ORDER BY concurso DESC LIMIT ?: the
\* positions of the rows, greatest first
RECURSIVE MaioresPrimeiro(_, _)
MaioresPrimeiro(S, limite) ==
    IF S = {} \/ limite <= 0 THEN <<>>
    ELSE <<MaxOf(S)>> \o MaioresPrimeiro(S \ {MaxOf(S)}, limite - 1)

\* list(reversed(rows))
Reversed(s) == [i \in 1..Len(s) |-> s[Len(s) + 1 - i]]

\* the same query with the row after the position let in
LinhasAteProximo(tabela, concurso, janela) ==
    Reversed(MaioresPrimeiro({c \in tabela : c <= concurso + 1}, janela))

\* the positions whose rows _fetch_recent_results returns, oldest first
LinhasAte(tabela, concurso, janela) ==
    Reversed(MaioresPrimeiro({c \in tabela : c <= concurso}, janela))

\* _fetch_recent_results: the outcomes of those rows
FetchRecentResults(tabela, concurso, janela) ==
    [i \in 1..Len(LinhasAte(tabela, concurso, janela)) |->
        Resultado(LinhasAte(tabela, concurso, janela)[i])]

\* the loop that counts each number over historico
FreqRecente(historico) ==
    [d \in UNIVERSO |-> Cardinality({i \in 1..Len(historico) : d \in historico[i]})]

BuildContext(tabela, concurso, janela_recente) ==
    [concurso_n |-> concurso,
     ultimo_resultado |->
        IF Len(FetchRecentResults(tabela, concurso, janela_recente)) > 0
        THEN FetchRecentResults(tabela, concurso, janela_recente)
                [Len(FetchRecentResults(tabela, concurso, janela_recente))]
        ELSE FetchResult(tabela, concurso),
     historico_recente |-> FetchRecentResults(tabela, concurso, janela_recente),
     freq_recente |-> FreqRecente(FetchRecentResults(tabela, concurso, janela_recente)),
     janela_recente |-> janela_recente]

SemContexto ==
    [concurso_n |-> 0, ultimo_resultado |-> {}, historico_recente |-> <<>>,
     freq_recente |-> [d \in UNIVERSO |-> 0], janela_recente |-> 0]

InitCtxVars ==
    /\ context = SemContexto
    /\ ctx_concursos = {}

\* the window sizes a context is asked with
Janelas == 1..MaxJanela

\* one call of _build_context for a position of the table
BuildContextCall ==
    /\ pc = "stopped"
    /\ \E c \in concursos, j \in Janelas :
          context' = BuildContext(concursos, c, j)
    /\ ctx_concursos' = concursos
    /\ UNCHANGED <<concursos, foraContext>>

\* the stored positions at or below the position of the context
AteContexto == {c \in ctx_concursos : c <= context.concurso_n}

\* C16: the context of position p holds only outcomes of stored positions at
\* or below p, at most janela_recente of them and the most recent ones,
\* oldest first; ultimo_resultado is the outcome of the greatest stored
\* position at or below p; the outcome of position p + 1 is in neither.
C16_ContextNoLookahead ==
    context.concurso_n > 0 =>
        /\ Len(context.historico_recente) <= context.janela_recente
        /\ \E ps \in [1..Len(context.historico_recente) -> AteContexto] :
              /\ \A i \in DOMAIN ps : context.historico_recente[i] = Resultado(ps[i])
              /\ \A i, k \in DOMAIN ps : i < k => ps[i] < ps[k]
              /\ \A c \in AteContexto :
                    (\E i \in DOMAIN ps : ps[i] < c) => \E i \in DOMAIN ps : ps[i] = c
        /\ AteContexto # {} => context.ultimo_resultado = Resultado(MaxOf(AteContexto))
        /\ \A i \in DOMAIN context.historico_recente :
              context.historico_recente[i] # Resultado(context.concurso_n + 1)
        /\ context.ultimo_resultado # Resultado(context.concurso_n + 1)
        /\ \A d \in UNIVERSO :
              context.freq_recente[d] =
                 Cardinality({c \in AteContexto :
                                 /\ d \in Resultado(c)
                                 /\ \E i \in DOMAIN context.historico_recente :
                                       context.historico_recente[i] = Resultado(c)})

\* a context whose window cut older stored positions off, built while the
\* outcome of the next position was already stored
C16_Witness ==
    /\ context.concurso_n > 0
    /\ context.concurso_n + 1 \in ctx_concursos
    /\ Cardinality(AteContexto) > context.janela_recente
    /\ Len(context.historico_recente) = context.janela_recente
    /\ context.janela_recente >= 2

(***************************************************************************)
(* treinar_pendencias: checkpoint writes and hub.save_all along the loop   *)
(***************************************************************************)
\* the tables of positions a call may find: at least two rows, gaps allowed
TabelasPersist == {t \in SUBSET (1..MaxPosPersist) : Cardinality(t) >= 2}

InitPersistVars ==
    /\ ps_tabela = {}
    /\ ps_pend = <<>>
    /\ ps_idx = 0
    /\ ps_pc = "idle"
    /\ ps_checkpoint = 0
    /\ ps_desde = 0

\* lines 357-369 and hub.load_all: pendentes of a first call
PsStart ==
    /\ ps_pc = "idle"
    /\ \E t \in TabelasPersist :
          /\ ps_tabela' = t
          /\ ps_pend' = Pendentes(FetchAllConcursos(t), 0)
    /\ ps_idx' = 1
    /\ ps_pc' = "loop"
    /\ UNCHANGED <<ps_checkpoint, ps_desde, foraPersist>>

\* `if not resultado_n1: continue`
PsSkip ==
    /\ ps_pc = "loop"
    /\ ps_idx <= Len(ps_pend)
    /\ SemResultado(FetchResult(ps_tabela, ps_pend[ps_idx] + 1))
    /\ ps_idx' = ps_idx + 1
    /\ UNCHANGED <<ps_tabela, ps_pend, ps_pc, ps_checkpoint, ps_desde, foraPersist>>

\* lines 442-512: the position is processed and its checkpoint written
PsCheckpoint ==
    /\ ps_pc = "loop"
    /\ ps_idx <= Len(ps_pend)
    /\ ~SemResultado(FetchResult(ps_tabela, ps_pend[ps_idx] + 1))
    /\ ps_checkpoint' = ps_pend[ps_idx]
    /\ ps_desde' = ps_desde + 1
    /\ ps_pc' = "checkpointed"
    /\ UNCHANGED <<ps_tabela, ps_pend, ps_idx, foraPersist>>

\* `if idx % int(PERSISTIR_A_CADA) == 0: hub.save_all()`, and the next idx
PsSaveEvery ==
    /\ ps_pc = "checkpointed"
    /\ ps_desde' = IF ps_idx % PersistirACada = 0 THEN 0 ELSE ps_desde
    /\ ps_idx' = ps_idx + 1
    /\ ps_pc' = "loop"
    /\ UNCHANGED <<ps_tabela, ps_pend, ps_checkpoint, foraPersist>>

\* the loop is over: hub.save_all() of line 523
PsFinish ==
    /\ ps_pc = "loop"
    /\ ps_idx > Len(ps_pend)
    /\ ps_desde' = 0
    /\ ps_pc' = "done"
    /\ UNCHANGED <<ps_tabela, ps_pend, ps_idx, ps_checkpoint, foraPersist>>

\* the process is ended from outside, between any two statements
PsKill ==
    /\ ps_pc \in {"loop", "checkpointed"}
    /\ ps_pc' = "killed"
    /\ UNCHANGED <<ps_tabela, ps_pend, ps_idx, ps_checkpoint, ps_desde, foraPersist>>

\* C22: wherever the trainer is ended abruptly, fewer than PERSISTIR_A_CADA
\* positions were checkpointed since the brains' state was last saved.
C22_SnapshotWithinN ==
    ps_pc = "killed" => ps_desde < PersistirACada


(***************************************************************************)
(* The enabled flag of the brains across backtest and trainer processes    *)
(***************************************************************************)
ATRASO == "temporal_atraso"

\* the brains the backtest registers
FlagBrains == {FREQ, STEPS, ATRASO}

TodosHabilitados == [b \in FlagBrains |-> TRUE]

InitFlagVars ==
    /\ fl_pc = "off"
    /\ fl_enabled = TodosHabilitados
    /\ fl_habilitado = TodosHabilitados
    /\ fl_antes = TodosHabilitados

\* BaseBrain.__init__ and _ensure_registered: enabled is read from the
\* habilitado column of the brain's row
EnsureRegistered == fl_habilitado

\* the backtest process builds its hub
FlBacktestStart ==
    /\ fl_pc = "off"
    /\ fl_enabled' = EnsureRegistered
    /\ fl_antes' = fl_habilitado
    /\ fl_pc' = "bt_ciclo"
    /\ UNCHANGED fl_habilitado
    /\ UNCHANGED foraFlag

\* maybe_disable_some_brains: each brain is disabled or enabled by its own
\* random draw
MaybeDisableSomeBrains ==
    /\ fl_pc = "bt_ciclo"
    /\ \E off \in SUBSET FlagBrains : fl_enabled' = [b \in FlagBrains |-> b \notin off]
    /\ fl_pc' = "bt_bloco"
    /\ UNCHANGED <<fl_habilitado, fl_antes>>
    /\ UNCHANGED foraFlag

\* BaseBrain.save_state of every brain: habilitado = 1 if enabled else 0
SaveStateFlags == fl_enabled

\* hub.save_all() at the end of a block
FlBlockEnd ==
    /\ fl_pc = "bt_bloco"
    /\ fl_habilitado' = SaveStateFlags
    /\ fl_pc' = "bt_ciclo"
    /\ UNCHANGED <<fl_enabled, fl_antes>>
    /\ UNCHANGED foraFlag

\* the backtest process ends, at a budget test or by being killed
FlBacktestExit ==
    /\ fl_pc \in {"bt_ciclo", "bt_bloco"}
    /\ fl_pc' = "off"
    /\ fl_enabled' = TodosHabilitados
    /\ UNCHANGED <<fl_habilitado, fl_antes>>
    /\ UNCHANGED foraFlag

\* the incremental trainer builds its hub
FlTrainerStart ==
    /\ fl_pc = "off"
    /\ fl_enabled' = EnsureRegistered
    /\ fl_pc' = "treino"
    /\ UNCHANGED <<fl_habilitado, fl_antes>>
    /\ UNCHANGED foraFlag

\* hub.save_all() of the trainer, then the process ends
FlTrainerSave ==
    /\ fl_pc = "treino"
    /\ fl_habilitado' = SaveStateFlags
    /\ fl_pc' = "off"
    /\ fl_enabled' = TodosHabilitados
    /\ UNCHANGED fl_antes
    /\ UNCHANGED foraFlag

\* C25: the random disabling of a backtest block leaves no trace after the
\* block: between processes the habilitado column is what it was before
\* the backtest started, and a trainer started afterwards has every brain's
\* enabled flag as it was before the backtest.
C25_DisableDoesNotOutlive ==
    /\ fl_pc = "off" => fl_habilitado = fl_antes
    /\ fl_pc = "treino" => fl_enabled = fl_antes



(***************************************************************************)
(* compact_game and its double call in generate_for_size                   *)
(***************************************************************************)
DezenasCg == 1..MaxDezenaCg

JogosCg == UNION {[1..n -> DezenasCg] : n \in 0..MaxJogoCg}

TargetsCg == 1..MaxTargetCg

CoresCg == {[a |-> {}, b |-> {}, c |-> {}], [a |-> {1, 2}, b |-> {2, 3}, c |-> {4}]}

FreqsCg == {[d \in DezenasCg |-> 0], [d \in DezenasCg |-> MaxDezenaCg - d]}

ParesCg == {[p \in {} |-> 0], [p \in {{1, 2}, {3, 4}} |-> 2]}

SemCompact == [jogo |-> <<>>, target_size |-> 1, core |-> [a |-> {}, b |-> {}, c |-> {}], freq |-> [d \in DezenasCg |-> 0], pair_scores |-> [p \in {} |-> 0]]

InitCompactVars ==
    /\ cg_pc = "idle"
    /\ cg_args = SemCompact
    /\ cg_passo = 0
    /\ cg_atual = <<>>
    /\ cg_ret1 = <<>>
    /\ cg_ret2 = <<>>

\* pair_scores.get(key, 0)
PairScoreGet(ps, d, other) == IF {d, other} \in DOMAIN ps THEN ps[{d, other}] ELSE 0

RECURSIVE SomaPares(_, _, _)
SomaPares(ps, d, outros) ==
    IF outros = {} THEN 0
    ELSE LET o == CHOOSE x \in outros : TRUE
         IN  PairScoreGet(ps, d, o) + SomaPares(ps, d, outros \ {o})

\* max(1, max(freq.values()) if freq else 1)
FreqMaxCg(freq) == Max2(1, MaxOf({freq[d] : d \in DOMAIN freq}))

\* the cost of d in jogo_atual, times 100 * FreqMaxCg(freq)
Cost(d, jogo_atual, args) ==
    LET m == FreqMaxCg(args.freq)
    IN  (IF d \in args.core.a THEN 200 * m ELSE 0)
        + (IF d \in args.core.b THEN 96 * m ELSE 0)
        + (IF d \in args.core.c THEN 60 * m ELSE 0)
        + 60 * args.freq[d]
        + 40 * m * SomaPares(args.pair_scores, d, Range(jogo_atual) \ {d})

\* costs.sort(key=cost) is stable: of the cheapest numbers, the first of
\* jogo_atual
RemoveD(jogo_atual, args) ==
    LET i == CHOOSE k \in DOMAIN jogo_atual :
                 \A l \in DOMAIN jogo_atual :
                     \/ Cost(jogo_atual[k], jogo_atual, args) < Cost(jogo_atual[l], jogo_atual, args)
                     \/ (Cost(jogo_atual[k], jogo_atual, args) = Cost(jogo_atual[l], jogo_atual, args) /\ k <= l)
    IN  jogo_atual[i]

\* jogo_atual.remove(remove_d)
RemoveFrom(s, d) ==
    LET i == CHOOSE k \in DOMAIN s : s[k] = d /\ \A l \in 1..(k - 1) : s[l] # d
    IN  SubSeq(s, 1, i - 1) \o SubSeq(s, i + 1, Len(s))

\* a loop test that also removes when the game already has the size
CompactGuardInclusive(jogo_atual, target_size) == Len(jogo_atual) >= target_size

\* while len(jogo_atual) > target_size
CompactGuard(jogo_atual, target_size) == Len(jogo_atual) > target_size

\* generate_for_size compacts a candidate: compactar_por_custo starts with
\* jogo_atual = sorted(set(jogo))
CgCall ==
    /\ cg_pc = "idle"
    /\ \E jogo \in JogosCg, t \in TargetsCg, core \in CoresCg, freq \in FreqsCg, ps \in ParesCg :
          /\ cg_args' = [jogo |-> jogo, target_size |-> t, core |-> core, freq |-> freq, pair_scores |-> ps]
          /\ cg_atual' = SortAsc(Range(jogo))
    /\ cg_passo' = 1
    /\ cg_pc' = "loop"
    /\ UNCHANGED <<cg_ret1, cg_ret2>>
    /\ UNCHANGED foraCompact

\* one iteration of the while loop of compact_game
CompactRemove ==
    /\ cg_pc = "loop"
    /\ CompactGuard(cg_atual, cg_args.target_size)
    /\ cg_atual' = RemoveFrom(cg_atual, RemoveD(cg_atual, cg_args))
    /\ UNCHANGED <<cg_pc, cg_args, cg_passo, cg_ret1, cg_ret2>>
    /\ UNCHANGED foraCompact

\* compactar_por_custo returns sorted(jogo_atual); compact_game is called
\* with that result
CgSecondCall ==
    /\ cg_pc = "loop"
    /\ cg_passo = 1
    /\ ~CompactGuard(cg_atual, cg_args.target_size)
    /\ cg_ret1' = SortAsc(Range(cg_atual))
    /\ cg_atual' = SortAsc(Range(SortAsc(Range(cg_atual))))
    /\ cg_passo' = 2
    /\ UNCHANGED <<cg_pc, cg_args, cg_ret2>>
    /\ UNCHANGED foraCompact

\* the second compact_game returns
CgReturn ==
    /\ cg_pc = "loop"
    /\ cg_passo = 2
    /\ ~CompactGuard(cg_atual, cg_args.target_size)
    /\ cg_ret2' = SortAsc(Range(cg_atual))
    /\ cg_pc' = "done"
    /\ UNCHANGED <<cg_args, cg_passo, cg_atual, cg_ret1>>
    /\ UNCHANGED foraCompact

\* the next candidate
CgDone ==
    /\ cg_pc = "done"
    /\ cg_pc' = "idle"
    /\ cg_args' = SemCompact
    /\ cg_passo' = 0
    /\ cg_atual' = <<>>
    /\ cg_ret1' = <<>>
    /\ cg_ret2' = <<>>
    /\ UNCHANGED foraCompact

\* C26: compact_game removes one number at a time, each time one of the
\* cheapest of the numbers still in the game, until the game has exactly
\* target_size distinct numbers; a game with at most target_size distinct
\* numbers comes back as its sorted distinct numbers; the second call on
\* the result of the first returns that same result.
C26_CompactIdempotent ==
    /\ [][(cg_pc = "loop" /\ cg_atual' # cg_atual /\ cg_pc' = "loop" /\ cg_passo' = cg_passo) =>
            \E d \in Range(cg_atual) :
                /\ Range(cg_atual') = Range(cg_atual) \ {d}
                /\ Len(cg_atual') = Len(cg_atual) - 1
                /\ \A o \in Range(cg_atual) : Cost(d, cg_atual, cg_args) <= Cost(o, cg_atual, cg_args)]_vars
    /\ [](cg_pc = "done" =>
            /\ cg_ret2 = cg_ret1
            /\ Range(cg_ret1) \subseteq Range(cg_args.jogo)
            /\ \A i, k \in DOMAIN cg_ret1 : i < k => cg_ret1[i] < cg_ret1[k]
            /\ IF Cardinality(Range(cg_args.jogo)) <= cg_args.target_size
               THEN Range(cg_ret1) = Range(cg_args.jogo)
               ELSE Len(cg_ret1) = cg_args.target_size)

\* a game with a repeated number and two numbers too many, compacted under
\* pair scores and cores that make the smallest number not the cheapest
C26_Witness ==
    /\ cg_pc = "done"
    /\ Len(cg_args.jogo) > Cardinality(Range(cg_args.jogo))
    /\ Cardinality(Range(cg_args.jogo)) >= cg_args.target_size + 2
    /\ cg_args.core.a # {}
    /\ 1 \in Range(cg_ret2)
    /\ 3 \in Range(cg_args.jogo) \ Range(cg_ret2)


(***************************************************************************)
(* run: treinar_pendencias called again and again with --limite            *)
(***************************************************************************)
TabelasLoop == {t \in SUBSET (1..MaxPosLoop) : Cardinality(t) >= 2}

Limites == 1..MaxLimite

InitLoopVars ==
    /\ lp_pc = "off"
    /\ lp_tabela = {}
    /\ lp_concursos = <<>>
    /\ lp_limite = 1
    /\ lp_checkpoint = 0
    /\ lp_pend = <<>>
    /\ lp_i = 0
    /\ lp_msg = "ok"

\* main: run(loop=True, limite_concursos=args.limite) on a database
LpStart ==
    /\ lp_pc = "off"
    /\ lp_tabela' \in TabelasLoop
    /\ lp_limite' \in Limites
    /\ lp_pc' = "treinar"
    /\ UNCHANGED <<lp_concursos, lp_checkpoint, lp_pend, lp_i, lp_msg>>
    /\ UNCHANGED foraLoop

\* concursos = _fetch_all_concursos(conn), at the start of each call
LpFetchAll ==
    /\ lp_pc = "treinar"
    /\ lp_concursos' = FetchAllConcursos(lp_tabela)
    /\ lp_pc' = "pendentes"
    /\ UNCHANGED <<lp_tabela, lp_limite, lp_checkpoint, lp_pend, lp_i, lp_msg>>
    /\ UNCHANGED foraLoop

\* pendentes = pendentes[: int(limite_concursos)]
PendentesLimitados(lista, ck, limite) == Take(Pendentes(lista, ck), limite)

\* treinar_pendencias up to the for loop: with no pendentes it returns
\* "Sem novos concursos para treinar." and run sleeps
LpTreinar ==
    /\ lp_pc = "pendentes"
    /\ \E p \in {PendentesLimitados(lp_concursos, lp_checkpoint, lp_limite)} :
          /\ lp_pend' = p
          /\ lp_pc' = IF p = <<>> THEN "dorme" ELSE "for"
          /\ lp_msg' = IF p = <<>> THEN "sem_novos" ELSE lp_msg
          /\ lp_i' = IF p = <<>> THEN 0 ELSE 1
    /\ UNCHANGED <<lp_tabela, lp_concursos, lp_limite, lp_checkpoint>>
    /\ UNCHANGED foraLoop

\* `if not resultado_n1: continue`
LpSkip ==
    /\ lp_pc = "for"
    /\ lp_i <= Len(lp_pend)
    /\ SemResultado(FetchResult(lp_tabela, lp_pend[lp_i] + 1))
    /\ lp_i' = lp_i + 1
    /\ UNCHANGED <<lp_pc, lp_tabela, lp_concursos, lp_limite, lp_checkpoint, lp_pend, lp_msg>>
    /\ UNCHANGED foraLoop

\* the position is trained and _set_checkpoint(conn, concurso_n) is written
LpSetCheckpoint ==
    /\ lp_pc = "for"
    /\ lp_i <= Len(lp_pend)
    /\ ~SemResultado(FetchResult(lp_tabela, lp_pend[lp_i] + 1))
    /\ lp_checkpoint' = lp_pend[lp_i]
    /\ lp_i' = lp_i + 1
    /\ UNCHANGED <<lp_pc, lp_tabela, lp_concursos, lp_limite, lp_pend, lp_msg>>
    /\ UNCHANGED foraLoop

\* the for loop is over: treinar_pendencias returns its summary and run
\* sleeps two seconds
LpReturn ==
    /\ lp_pc = "for"
    /\ lp_i > Len(lp_pend)
    /\ lp_pc' = "dorme"
    /\ lp_msg' = "ok"
    /\ UNCHANGED <<lp_tabela, lp_concursos, lp_limite, lp_checkpoint, lp_pend, lp_i>>
    /\ UNCHANGED foraLoop

\* the sleep of run ends: the next iteration of `while True`
LpWake ==
    /\ lp_pc = "dorme"
    /\ lp_pc' = "treinar"
    /\ UNCHANGED <<lp_tabela, lp_concursos, lp_limite, lp_checkpoint, lp_pend, lp_i, lp_msg>>
    /\ UNCHANGED foraLoop

\* the stored positions above the checkpoint, up to the second to last,
\* whose next position is stored
Restantes ==
    {c \in lp_tabela : /\ c > lp_checkpoint
                       /\ \E d \in lp_tabela : d > c
                       /\ ~SemResultado(FetchResult(lp_tabela, c + 1))}

\* C27: a trainer left running in loop mode, with any --limite >= 1 and
\* any set of stored positions, reaches a point from which every position
\* with a stored successor has been checkpointed and every iteration
\* reports that there is nothing new to train.
C27_LoopTrainsEverything ==
    (lp_pc # "off") ~> [](Restantes = {} /\ (lp_pc = "dorme" => lp_msg = "sem_novos"))
(***************************************************************************)
(* web_dashboard: background tasks started by HTTP requests                *)
(***************************************************************************)
Tarefas == {"avaliacao", "treino", "gerar_jogos", "relatorio_html"}

Rotas == {"avaliar", "treinar", "gerar_jogos", "gerar_relatorio"}

\* the task whose status a route tests
TarefaDe(rota) ==
    CASE rota = "avaliar" -> "avaliacao"
      [] rota = "treinar" -> "treino"
      [] rota = "gerar_jogos" -> "gerar_jogos"
      [] OTHER -> "relatorio_html"

Pedidos == 1..MaxPedidos

Threads == 1..MaxThreads

PedidoLivre == [pc |-> "livre", rota |-> "", auto_clear |-> FALSE]

ThreadLivre == [pc |-> "livre", tarefa |-> "", alvo |-> "", fase |-> 0]

InitDashVars ==
    /\ wd_status = [k \in Tarefas |-> "idle"]
    /\ wd_procs = [k \in Tarefas |-> 0]
    /\ wd_req = [r \in Pedidos |-> PedidoLivre]
    /\ wd_thr = [t \in Threads |-> ThreadLivre]

\* clear_task_artifacts(name): reset_task(name), and of relatorio_html too
\* when name is avaliacao
ClearTaskArtifacts(status, name) ==
    [k \in Tarefas |->
        IF k = name \/ (name = "avaliacao" /\ k = "relatorio_html") THEN "idle" ELSE status[k]]

\* a POST handler passes `if TASKS[name].status == "running": return`; it
\* takes the first free handler slot
WdCheck(r, rota) ==
    /\ wd_req[r].pc = "livre"
    /\ \A q \in 1..(r - 1) : wd_req[q].pc # "livre"
    /\ wd_status[TarefaDe(rota)] # "running"
    /\ \E ac \in BOOLEAN : wd_req' = [wd_req EXCEPT ![r] = [pc |-> "checked", rota |-> rota, auto_clear |-> ac]]
    /\ UNCHANGED <<wd_status, wd_procs, wd_thr>>
    /\ UNCHANGED foraDash

\* the rest of the handler: clear_task_artifacts when asked, then
\* start_background_task (status = running, thread of run_command), or for
\* /avaliar the thread of run_both
WdHandle(r) ==
    /\ wd_req[r].pc = "checked"
    /\ \E t \in Threads :
          /\ wd_thr[t].pc = "livre"
          /\ \A u \in 1..(t - 1) : wd_thr[u].pc # "livre"
          /\ \E limpo \in {IF wd_req[r].auto_clear
                           THEN ClearTaskArtifacts(wd_status, TarefaDe(wd_req[r].rota))
                           ELSE wd_status} :
                IF wd_req[r].rota = "avaliar"
                THEN /\ wd_status' = limpo
                     /\ wd_thr' = [wd_thr EXCEPT ![t] = [pc |-> "run", tarefa |-> "avaliacao", alvo |-> "run_both", fase |-> 7]]
                ELSE /\ wd_status' = [limpo EXCEPT ![TarefaDe(wd_req[r].rota)] = "running"]
                     /\ wd_thr' = [wd_thr EXCEPT ![t] = [pc |-> "run", tarefa |-> TarefaDe(wd_req[r].rota), alvo |-> "run_command", fase |-> 0]]
    /\ wd_req' = [wd_req EXCEPT ![r] = PedidoLivre]
    /\ UNCHANGED wd_procs
    /\ UNCHANGED foraDash

\* run_command up to subprocess.Popen
WdPopen(t) ==
    /\ wd_thr[t].pc = "run"
    /\ wd_procs[wd_thr[t].tarefa] < MaxThreads
    /\ wd_status' = [wd_status EXCEPT ![wd_thr[t].tarefa] = "running"]
    /\ wd_procs' = [wd_procs EXCEPT ![wd_thr[t].tarefa] = @ + 1]
    /\ wd_thr' = [wd_thr EXCEPT ![t].pc = "wait"]
    /\ UNCHANGED wd_req
    /\ UNCHANGED foraDash

\* process.wait() returns with the exit code; run_command sets the status
WdWait(t, code) ==
    /\ wd_thr[t].pc = "wait"
    /\ wd_procs' = [wd_procs EXCEPT ![wd_thr[t].tarefa] = @ - 1]
    /\ wd_status' = [wd_status EXCEPT ![wd_thr[t].tarefa] = IF code = 0 THEN "completed" ELSE "failed"]
    /\ wd_thr' = [wd_thr EXCEPT ![t] =
                     IF wd_thr[t].alvo = "run_both" /\ wd_thr[t].fase # 99
                     THEN [@ EXCEPT !.pc = "back"]
                     ELSE ThreadLivre]
    /\ UNCHANGED wd_req
    /\ UNCHANGED foraDash

\* run_both after a run_command returned: the second evaluation when the
\* first completed, the report when both completed and the reports exist
WdRunBoth(t, reports) ==
    /\ wd_thr[t].pc = "back"
    /\ wd_thr' = [wd_thr EXCEPT ![t] =
                     IF wd_status["avaliacao"] # "completed" THEN ThreadLivre
                     ELSE IF wd_thr[t].fase = 7 THEN [@ EXCEPT !.pc = "run", !.fase = 15]
                     ELSE IF reports THEN [pc |-> "run", tarefa |-> "relatorio_html", alvo |-> "run_both", fase |-> 99]
                     ELSE ThreadLivre]
    /\ UNCHANGED <<wd_status, wd_procs, wd_req>>
    /\ UNCHANGED foraDash

\* C30: at no time are two subprocesses of the same task name running,
\* however the request handlers and the worker threads interleave.
C30_OneSubprocessPerTask ==
    \A k \in Tarefas : wd_procs[k] <= 1

(***************************************************************************)
(* Specifications                                                          *)
(***************************************************************************)
InitHub == InitHubVars /\ InitTreinoVars /\ InitBtVars /\ InitBrainVars /\ InitCtxVars /\ InitPersistVars /\ InitFlagVars /\ InitCompactVars /\ InitLoopVars /\ InitDashVars

NextHub == HubCall \/ HubFirstPass \/ HubRelax \/ HubReturn \/ HubDone

SpecHub == InitHub /\ [][NextHub]_vars

Init == InitTreinoVars /\ InitHubVars /\ InitBtVars /\ InitBrainVars /\ InitCtxVars /\ InitPersistVars /\ InitFlagVars /\ InitCompactVars /\ InitLoopVars /\ InitDashVars

Next ==
    \/ UpdateConcursos
    \/ StartRun
    \/ LoopExit
    \/ SkipPosition
    \/ GeneratePosition
    \/ InsertTentativa
    \/ InsertMemoria
    \/ EscritaFalha
    \/ Learn
    \/ SetCheckpoint
    \/ Kill
    \/ Exit

Spec == Init /\ [][Next]_vars

InitBacktest == InitBtVars /\ InitTreinoVars /\ InitHubVars /\ InitBrainVars /\ InitCtxVars /\ InitPersistVars /\ InitFlagVars /\ InitCompactVars /\ InitLoopVars /\ InitDashVars

NextBacktest ==
    \/ BtCheckpoint
    \/ UpdateConcursos
    \/ BtStart
    \/ BtBlock
    \/ BtItem
    \/ BtBlockEnd
    \/ BtStop
    \/ BtExit

SpecBacktest == InitBacktest /\ [][NextBacktest]_vars

InitLearn == InitBrainVars /\ InitTreinoVars /\ InitHubVars /\ InitBtVars /\ InitCtxVars /\ InitPersistVars /\ InitFlagVars /\ InitCompactVars /\ InitLoopVars /\ InitDashVars

NextLearn == BrainGenerate \/ HubLearnCall \/ HubLearnRepeat \/ ProximaPosicao

SpecLearn == InitLearn /\ [][NextLearn]_vars

NextBrain == BrainGenerate \/ HubLearnCall \/ SaveAll \/ LoadAll \/ NovaInstancia

SpecBrain == InitLearn /\ [][NextBrain]_vars

InitContext == InitCtxVars /\ InitTreinoVars /\ InitHubVars /\ InitBtVars /\ InitBrainVars /\ InitPersistVars /\ InitFlagVars /\ InitCompactVars /\ InitLoopVars /\ InitDashVars

NextContext == UpdateConcursos \/ BuildContextCall

SpecContext == InitContext /\ [][NextContext]_vars

InitPersist == InitPersistVars /\ InitTreinoVars /\ InitHubVars /\ InitBtVars /\ InitBrainVars /\ InitCtxVars /\ InitFlagVars /\ InitCompactVars /\ InitLoopVars /\ InitDashVars

NextPersist == PsStart \/ PsSkip \/ PsCheckpoint \/ PsSaveEvery \/ PsFinish \/ PsKill

SpecPersist == InitPersist /\ [][NextPersist]_vars

InitFlag == InitFlagVars /\ InitTreinoVars /\ InitHubVars /\ InitBtVars /\ InitBrainVars /\ InitCtxVars /\ InitPersistVars /\ InitCompactVars /\ InitLoopVars /\ InitDashVars

NextFlag == FlBacktestStart \/ MaybeDisableSomeBrains \/ FlBlockEnd \/ FlBacktestExit \/ FlTrainerStart \/ FlTrainerSave

SpecFlag == InitFlag /\ [][NextFlag]_vars

InitCompact == InitCompactVars /\ InitTreinoVars /\ InitHubVars /\ InitBtVars /\ InitBrainVars /\ InitCtxVars /\ InitPersistVars /\ InitFlagVars /\ InitLoopVars /\ InitDashVars

NextCompact == CgCall \/ CompactRemove \/ CgSecondCall \/ CgReturn \/ CgDone

SpecCompact == InitCompact /\ [][NextCompact]_vars

InitLoop == InitLoopVars /\ InitTreinoVars /\ InitHubVars /\ InitBtVars /\ InitBrainVars /\ InitCtxVars /\ InitPersistVars /\ InitFlagVars /\ InitCompactVars /\ InitDashVars

NextLoop == LpStart \/ LpFetchAll \/ LpTreinar \/ LpSkip \/ LpSetCheckpoint \/ LpReturn \/ LpWake

\* run never leaves `while True`: the process keeps taking its next step
SpecLoop == InitLoop /\ [][NextLoop]_vars /\ WF_vars(NextLoop)

InitDash == InitDashVars /\ InitTreinoVars /\ InitHubVars /\ InitBtVars /\ InitBrainVars /\ InitCtxVars /\ InitPersistVars /\ InitFlagVars /\ InitCompactVars /\ InitLoopVars

NextDash ==
    \/ \E r \in Pedidos, rota \in Rotas : WdCheck(r, rota)
    \/ \E r \in Pedidos : WdHandle(r)
    \/ \E t \in Threads : WdPopen(t)
    \/ \E t \in Threads, code \in {0, 1} : WdWait(t, code)
    \/ \E t \in Threads, reports \in BOOLEAN : WdRunBoth(t, reports)

SpecDash == InitDash /\ [][NextDash]_vars

====
